---- MODULE Spec2Model ----
(***************************************************************************)
(* A model of the flux-oriented-architecture flow engine: the interpolator *)
(* (src/src/core/interpolator.ts) and the flow executor                    *)
(* (src/src/core/executor.ts) interpreting a flux definition over one      *)
(* request context.                                                        *)
(***************************************************************************)
EXTENDS Integers, Sequences, FiniteSets, TLC

(***************************************************************************)
(* JavaScript values.  Every value is a record tagged by its type; objects *)
(* are functions from property names to values, arrays are sequences.      *)
(***************************************************************************)
Undef == [t |-> "undefined"]
Null == [t |-> "null"]
Num(n) == [t |-> "number", v |-> n]
Str(s) == [t |-> "string", v |-> s]
Bool(b) == [t |-> "boolean", v |-> b]
Arr(s) == [t |-> "array", v |-> s]
Obj(f) == [t |-> "object", v |-> f]
\* new Error(msg); src identifies the Error object by the place that made it
Err(msg, src) == [t |-> "error", v |-> msg, src |-> src]
\* the Express response object held at context.res
ResHandle == [t |-> "response"]
EmptyObj == Obj(<<>>)

\* !!value
Truthy(x) ==
  CASE x.t = "undefined" -> FALSE
    [] x.t = "null" -> FALSE
    [] x.t = "boolean" -> x.v
    [] x.t = "number" -> x.v # 0
    [] x.t = "string" -> x.v # ""
    [] OTHER -> TRUE

(***************************************************************************)
(* Strings are TLA+ strings; the String methods the interpolator uses are  *)
(* computed character by character.                                        *)
(***************************************************************************)
Char(s, i) == SubSeq(s, i, i)

StartsAt(s, pat, i) ==
  /\ i >= 1
  /\ i + Len(pat) - 1 <= Len(s)
  /\ SubSeq(s, i, i + Len(pat) - 1) = pat

\* the first index >= i where pat occurs in s, 0 when there is none
RECURSIVE IndexFrom(_, _, _)
IndexFrom(s, pat, i) ==
  IF i + Len(pat) - 1 > Len(s) THEN 0
  ELSE IF StartsAt(s, pat, i) THEN i
  ELSE IndexFrom(s, pat, i + 1)

\* s.includes(pat)
Includes(s, pat) == IndexFrom(s, pat, 1) # 0

\* s.split(sep) for a one-character separator
RECURSIVE Split(_, _)
Split(s, sep) ==
  LET k == IndexFrom(s, sep, 1) IN
  IF k = 0 THEN <<s>>
  ELSE <<SubSeq(s, 1, k - 1)>> \o Split(SubSeq(s, k + 1, Len(s)), sep)

Digits == <<"0", "1", "2", "3", "4", "5", "6", "7", "8", "9">>

\* String(n) for a natural number
RECURSIVE NatToStr(_)
NatToStr(n) ==
  IF n < 10 THEN Digits[n + 1]
  ELSE NatToStr(n \div 10) \o Digits[(n % 10) + 1]

IntToStr(n) == IF n < 0 THEN "-" \o NatToStr(0 - n) ELSE NatToStr(n)

IsDigit(c) == \E d \in 1..10 : Digits[d] = c
DigitVal(c) == (CHOOSE d \in 1..10 : Digits[d] = c) - 1

\* a canonical array index: "0", or digits without a leading zero
IsIndex(s) ==
  /\ Len(s) >= 1
  /\ \A i \in 1..Len(s) : IsDigit(Char(s, i))
  /\ (Len(s) > 1 => Char(s, 1) # "0")

RECURSIVE StrToNat(_)
StrToNat(s) ==
  IF Len(s) = 0 THEN 0
  ELSE 10 * StrToNat(SubSeq(s, 1, Len(s) - 1)) + DigitVal(Char(s, Len(s)))

\* String(value)
RECURSIVE ToStr(_)
RECURSIVE JoinArr(_, _)
JoinArr(a, i) ==
  IF i > Len(a) THEN ""
  ELSE (IF i > 1 THEN "," ELSE "")
       \o (IF a[i].t \in {"undefined", "null"} THEN "" ELSE ToStr(a[i]))
       \o JoinArr(a, i + 1)
ToStr(x) ==
  CASE x.t = "undefined" -> "undefined"
    [] x.t = "null" -> "null"
    [] x.t = "boolean" -> (IF x.v THEN "true" ELSE "false")
    [] x.t = "number" -> IntToStr(x.v)
    [] x.t = "string" -> x.v
    [] x.t = "array" -> JoinArr(x.v, 1)
    [] x.t = "error" -> "Error: " \o x.v
    [] OTHER -> "[object Object]"

\* value[part] for a value that is neither undefined nor null
GetProp(x, part) ==
  CASE x.t = "object" -> (IF part \in DOMAIN x.v THEN x.v[part] ELSE Undef)
    [] x.t = "array" ->
         (IF part = "length" THEN Num(Len(x.v))
          ELSE IF IsIndex(part) /\ StrToNat(part) < Len(x.v)
               THEN x.v[StrToNat(part) + 1]
          ELSE Undef)
    [] x.t = "string" ->
         (IF part = "length" THEN Num(Len(x.v))
          ELSE IF IsIndex(part) /\ StrToNat(part) < Len(x.v)
               THEN Str(Char(x.v, StrToNat(part) + 1))
          ELSE Undef)
    [] x.t = "error" -> (IF part = "message" THEN Str(x.v) ELSE Undef)
    [] OTHER -> Undef

(***************************************************************************)
(* Interpolator                                                            *)
(***************************************************************************)
RECURSIVE WalkParts(_, _, _)
WalkParts(parts, i, value) ==
  IF i > Len(parts) THEN value
  ELSE IF value.t \in {"undefined", "null"} THEN Undef
  ELSE WalkParts(parts, i + 1, GetProp(value, parts[i]))

\* Interpolator.getValueByPath; the context is the object Obj(context)
getValueByPath(path, context) == WalkParts(Split(path, "."), 1, Obj(context))

\* expression.match(/^\$\{([^}]+)\}$/)
FullMatch(s) ==
  /\ Len(s) >= 4
  /\ StartsAt(s, "${", 1)
  /\ IndexFrom(s, "}", 3) = Len(s)

\* a replacement that renders every falsy value as the empty string
RECURSIVE ReplaceAll_falsy(_, _, _)
ReplaceAll_falsy(s, i, context) ==
  IF i > Len(s) THEN ""
  ELSE LET j == IF StartsAt(s, "${", i) THEN IndexFrom(s, "}", i + 2) ELSE 0 IN
       IF j > i + 2
       THEN LET value == getValueByPath(SubSeq(s, i + 2, j - 1), context) IN
            (IF Truthy(value) THEN ToStr(value) ELSE "")
            \o ReplaceAll_falsy(s, j + 1, context)
       ELSE Char(s, i) \o ReplaceAll_falsy(s, i + 1, context)

\* expression.replace(/\$\{([^}]+)\}/g, ...), scanning from index i
RECURSIVE ReplaceAll(_, _, _)
ReplaceAll(s, i, context) ==
  IF i > Len(s) THEN ""
  ELSE LET j == IF StartsAt(s, "${", i) THEN IndexFrom(s, "}", i + 2) ELSE 0 IN
       IF j > i + 2
       THEN LET value == getValueByPath(SubSeq(s, i + 2, j - 1), context) IN
            (IF value.t \in {"undefined", "null"} THEN "" ELSE ToStr(value))
            \o ReplaceAll(s, j + 1, context)
       ELSE Char(s, i) \o ReplaceAll(s, i + 1, context)

\* Interpolator.resolve
RECURSIVE resolve(_, _)
resolve(expression, context) ==
  CASE expression.t \in {"null", "undefined"} -> expression
    [] expression.t = "array" ->
         Arr([i \in 1..Len(expression.v) |-> resolve(expression.v[i], context)])
    [] expression.t = "object" ->
         Obj([key \in DOMAIN expression.v |-> resolve(expression.v[key], context)])
    [] expression.t = "string" ->
         (IF ~Includes(expression.v, "${") THEN expression
          ELSE IF FullMatch(expression.v)
               THEN getValueByPath(SubSeq(expression.v, 3, Len(expression.v) - 1), context)
          ELSE Str(ReplaceAll(expression.v, 1, context)))
    [] OTHER -> expression

(***************************************************************************)
(* Interpolator.evaluateCondition.  The text handed to new Function is     *)
(* evaluated as JavaScript over the operators the flux conditions use:     *)
(* ===, !==, <, >, <=, >=, !, &&, ||, parentheses, literals and __vars[i]. *)
(* Any other text makes the evaluation throw, which the catch clause turns *)
(* into the truthiness of resolve(expression).                             *)
(***************************************************************************)
\* the text of the values in place of the values
RECURSIVE CondVars_text(_, _, _)
CondVars_text(s, i, context) ==
  IF i > Len(s) THEN <<>>
  ELSE LET j == IF StartsAt(s, "${", i) THEN IndexFrom(s, "}", i + 2) ELSE 0 IN
       IF j > i + 2
       THEN <<Str(ToStr(getValueByPath(SubSeq(s, i + 2, j - 1), context)))>>
            \o CondVars_text(s, j + 1, context)
       ELSE CondVars_text(s, i + 1, context)

\* the values pushed on vars by the replace callback, scanning from index i
RECURSIVE CondVars(_, _, _)
CondVars(s, i, context) ==
  IF i > Len(s) THEN <<>>
  ELSE LET j == IF StartsAt(s, "${", i) THEN IndexFrom(s, "}", i + 2) ELSE 0 IN
       IF j > i + 2
       THEN <<getValueByPath(SubSeq(s, i + 2, j - 1), context)>> \o CondVars(s, j + 1, context)
       ELSE CondVars(s, i + 1, context)

\* processedExpression: the n-th placeholder from index i on becomes __vars[n]
RECURSIVE CondProcessed(_, _, _)
CondProcessed(s, i, n) ==
  IF i > Len(s) THEN ""
  ELSE LET j == IF StartsAt(s, "${", i) THEN IndexFrom(s, "}", i + 2) ELSE 0 IN
       IF j > i + 2
       THEN "__vars[" \o NatToStr(n) \o "]" \o CondProcessed(s, j + 1, n + 1)
       ELSE Char(s, i) \o CondProcessed(s, i + 1, n)

Tok(k, s, v) == [k |-> k, s |-> s, v |-> v]
IdChars == "abcdefghijklmnopqrstuvwxyzABCDEFGHIJKLMNOPQRSTUVWXYZ0123456789_$"
IsIdChar(s, i) == i <= Len(s) /\ Includes(IdChars, Char(s, i))
\* the word w stands at index i of s and ends there
WordAt(s, w, i) == StartsAt(s, w, i) /\ ~IsIdChar(s, i + Len(w))

\* the end of the run of digits that starts at index i
RECURSIVE DigitsEnd(_, _)
DigitsEnd(s, i) == IF i <= Len(s) /\ IsDigit(Char(s, i)) THEN DigitsEnd(s, i + 1) ELSE i - 1

Operators == <<"===", "!==", "<=", ">=", "&&", "||", "<", ">", "!", "(", ")">>

\* the tokens of the JavaScript text s from index i on
RECURSIVE Tokens(_, _)
Tokens(s, i) ==
  IF i > Len(s) THEN <<>>
  ELSE IF Char(s, i) = " " THEN Tokens(s, i + 1)
  ELSE IF \E o \in 1..Len(Operators) : StartsAt(s, Operators[o], i)
  THEN LET o == CHOOSE o \in 1..Len(Operators) :
                  /\ StartsAt(s, Operators[o], i)
                  /\ \A m \in 1..(o - 1) : ~StartsAt(s, Operators[m], i)
       IN <<Tok("op", Operators[o], Undef)>> \o Tokens(s, i + Len(Operators[o]))
  ELSE IF IsDigit(Char(s, i))
  THEN LET j == DigitsEnd(s, i) IN
       IF IsIdChar(s, j + 1) THEN <<Tok("bad", "", Undef)>>
       ELSE <<Tok("val", "", Num(StrToNat(SubSeq(s, i, j))))>> \o Tokens(s, j + 1)
  ELSE IF Char(s, i) \in {"'", "\""}
  THEN LET j == IndexFrom(s, Char(s, i), i + 1) IN
       IF j = 0 THEN <<Tok("bad", "", Undef)>>
       ELSE <<Tok("val", "", Str(SubSeq(s, i + 1, j - 1)))>> \o Tokens(s, j + 1)
  ELSE IF WordAt(s, "true", i) THEN <<Tok("val", "", Bool(TRUE))>> \o Tokens(s, i + 4)
  ELSE IF WordAt(s, "false", i) THEN <<Tok("val", "", Bool(FALSE))>> \o Tokens(s, i + 5)
  ELSE IF WordAt(s, "null", i) THEN <<Tok("val", "", Null)>> \o Tokens(s, i + 4)
  ELSE IF WordAt(s, "undefined", i) THEN <<Tok("val", "", Undef)>> \o Tokens(s, i + 9)
  ELSE IF StartsAt(s, "__vars[", i) /\ DigitsEnd(s, i + 7) >= i + 7
          /\ StartsAt(s, "]", DigitsEnd(s, i + 7) + 1)
  THEN LET j == DigitsEnd(s, i + 7) IN
       <<Tok("var", "", Num(StrToNat(SubSeq(s, i + 7, j))))>> \o Tokens(s, j + 2)
  ELSE <<Tok("bad", "", Undef)>>

\* Number(value); nan marks NaN
ToNumber(x) ==
  CASE x.t = "number" -> [nan |-> FALSE, n |-> x.v]
    [] x.t = "boolean" -> [nan |-> FALSE, n |-> IF x.v THEN 1 ELSE 0]
    [] x.t = "null" -> [nan |-> FALSE, n |-> 0]
    [] x.t = "string" /\ x.v = "" -> [nan |-> FALSE, n |-> 0]
    [] x.t = "string" /\ \A i \in 1..Len(x.v) : IsDigit(Char(x.v, i)) ->
         [nan |-> FALSE, n |-> StrToNat(x.v)]
    [] OTHER -> [nan |-> TRUE, n |-> 0]

\* the characters compared by code unit, in code order
Ascii == " -0123456789ABCDEFGHIJKLMNOPQRSTUVWXYZ_abcdefghijklmnopqrstuvwxyz"
CharCode(c) == IndexFrom(Ascii, c, 1)

\* a < b for two strings, comparing from index i on
RECURSIVE StrLess(_, _, _)
StrLess(a, b, i) ==
  IF i > Len(b) THEN FALSE
  ELSE IF i > Len(a) THEN TRUE
  ELSE IF Char(a, i) = Char(b, i) THEN StrLess(a, b, i + 1)
  ELSE CharCode(Char(a, i)) < CharCode(Char(b, i))

\* a < b
Less(a, b) ==
  IF a.t = "string" /\ b.t = "string" THEN StrLess(a.v, b.v, 1)
  ELSE LET x == ToNumber(a)
           y == ToNumber(b)
       IN ~x.nan /\ ~y.nan /\ x.n < y.n

\* a <= b
LessEq(a, b) ==
  IF a.t = "string" /\ b.t = "string" THEN ~StrLess(b.v, a.v, 1)
  ELSE LET x == ToNumber(a)
           y == ToNumber(b)
       IN ~x.nan /\ ~y.nan /\ x.n <= y.n

\* a === b; two objects are taken to be the same object when they are equal
StrictEq(a, b) == a = b

BinOp(op, a, b) ==
  CASE op = "||" -> (IF Truthy(a) THEN a ELSE b)
    [] op = "&&" -> (IF Truthy(a) THEN b ELSE a)
    [] op = "===" -> Bool(StrictEq(a, b))
    [] op = "!==" -> Bool(~StrictEq(a, b))
    [] op = "<" -> Bool(Less(a, b))
    [] op = ">" -> Bool(Less(b, a))
    [] op = "<=" -> Bool(LessEq(a, b))
    [] op = ">=" -> Bool(LessEq(b, a))

\* the binary operators by precedence level, loosest first
Levels == <<{"||"}, {"&&"}, {"===", "!=="}, {"<", ">", "<=", ">="}>>

Parsed(v, pos) == [ok |-> TRUE, v |-> v, pos |-> pos]
Failed == [ok |-> FALSE, v |-> Undef, pos |-> 0]
IsOp(toks, pos, ops) == pos <= Len(toks) /\ toks[pos].k = "op" /\ toks[pos].s \in ops

\* a parse of the expression of level lv that starts at token pos: its value
\* and the position after it; level Len(Levels) + 1 is a unary expression
RECURSIVE ParseLevel(_, _, _, _)
RECURSIVE ParseRest(_, _, _, _)
ParseLevel(toks, vs, lv, pos) ==
  IF lv <= Len(Levels)
  THEN ParseRest(toks, vs, lv, ParseLevel(toks, vs, lv + 1, pos))
  ELSE IF pos > Len(toks) THEN Failed
  ELSE IF IsOp(toks, pos, {"!"})
  THEN LET u == ParseLevel(toks, vs, lv, pos + 1) IN
       IF u.ok THEN Parsed(Bool(~Truthy(u.v)), u.pos) ELSE Failed
  ELSE IF IsOp(toks, pos, {"("})
  THEN LET e == ParseLevel(toks, vs, 1, pos + 1) IN
       IF e.ok /\ IsOp(toks, e.pos, {")"}) THEN Parsed(e.v, e.pos + 1) ELSE Failed
  ELSE IF toks[pos].k = "val" THEN Parsed(toks[pos].v, pos + 1)
  ELSE IF toks[pos].k = "var"
  THEN Parsed(IF toks[pos].v.v < Len(vs) THEN vs[toks[pos].v.v + 1] ELSE Undef, pos + 1)
  ELSE Failed
ParseRest(toks, vs, lv, l) ==
  IF ~l.ok THEN Failed
  ELSE IF IsOp(toks, l.pos, Levels[lv])
  THEN LET r == ParseLevel(toks, vs, lv + 1, l.pos + 1) IN
       IF r.ok THEN ParseRest(toks, vs, lv, Parsed(BinOp(toks[l.pos].s, l.v, r.v), r.pos))
       ELSE Failed
  ELSE l

\* new Function('__vars', 'return (' + text + ')')(vs): ok is FALSE when the
\* construction or the call throws
Evaluate(text, vs) ==
  LET toks == Tokens(text, 1)
      e == ParseLevel(toks, vs, 1, 1)
  IN IF e.ok /\ e.pos = Len(toks) + 1 THEN e ELSE Failed

\* Interpolator.evaluateCondition for a string expression
evaluateCondition(expression, context) ==
  IF expression = "" THEN FALSE
  ELSE LET r == Evaluate(CondProcessed(expression, 1, 0), CondVars(expression, 1, context)) IN
       IF r.ok THEN Truthy(r.v) ELSE Truthy(resolve(Str(expression), context))

(***************************************************************************)
(* Flow nodes (src/src/types/flux.ts).  An optional field that is absent   *)
(* holds Undef.                                                            *)
(***************************************************************************)
ActionNode(name, path, args) ==
  [type |-> "action", name |-> name, path |-> path, args |-> args]
ConditionNode(if, then, else) ==
  [type |-> "condition", if |-> if, then |-> then, else |-> else]
ForEachNode(items, as, do) ==
  [type |-> "forEach", items |-> items, as |-> as, do |-> do]
ParallelNode(branches) == [type |-> "parallel", branches |-> branches]
TryNode(try, catch, errorVar) ==
  [type |-> "try", try |-> try, catch |-> catch, errorVar |-> errorVar]
ReturnNode(status, body) == [type |-> "return", status |-> status, body |-> body]
NoNode == [type |-> "none"]

(***************************************************************************)
(* The action table of the loader and the handlers registered in it.  A    *)
(* handler is user code: it is modelled by the outcomes of one call, a     *)
(* returned value or a thrown Error.                                       *)
(***************************************************************************)
Returns(v) == [kind |-> "return", v |-> v]
Throws(msg) == [kind |-> "throw", v |-> Str(msg)]
NoOut == [kind |-> "none", v |-> Undef]

\* no request is suspended; no function is called
NoRequest == [t |-> "none"]
NoCall == [fn |-> "none"]

ActionPaths ==
  {"hello", "fail", "processItem", "branch1", "branch2", "okAction", "badAction", "flaky",
   "grow"}

\* the outcomes of calling the handler registered at path on context c
HandlerOutcomes(path, c) ==
  CASE path = "hello" -> {Returns(Obj([message |-> Str("hi")]))}
    [] path = "fail" -> {Throws("Boom")}
    [] path = "processItem" ->
         {Returns(IF "item" \in DOMAIN c /\ c["item"].t = "number"
                  THEN Num(c["item"].v * 2) ELSE Undef)}
    [] path = "branch1" -> {Returns(Str("res1"))}
    [] path = "branch2" -> {Returns(Str("res2"))}
    [] path = "okAction" -> {Returns(Str("ok"))}
    [] path = "badAction" -> {Throws("fail")}
    [] path = "flaky" -> {Returns(Undef), Throws("boom")}
    [] path = "grow" -> {Returns(Undef)}

(***************************************************************************)
(* The request context is a function from its property names to values.   *)
(***************************************************************************)
Put(c, key, value) == [k \in DOMAIN c \cup {key} |-> IF k = key THEN value ELSE c[k]]
Del(c, key) == [k \in DOMAIN c \ {key} |-> c[k]]
Has(c, key) == key \in DOMAIN c
Lookup(c, key) == IF key \in DOMAIN c THEN c[key] ELSE Undef

\* registerEndpoint's fresh context for a request with the merged input inp
NewContext(inp) ==
  [req |-> [t |-> "request"], res |-> ResHandle, input |-> Obj(inp),
   results |-> EmptyObj, state |-> EmptyObj, plugins |-> EmptyObj]

\* reading context.res.headersSent: "throw" is the TypeError of reading a
\* property of undefined or null
ReadHeadersSent(c, hs) ==
  IF Lookup(c, "res").t \in {"undefined", "null"} THEN "throw"
  ELSE IF c["res"] = ResHandle THEN (IF hs THEN "sent" ELSE "unsent")
  ELSE IF Truthy(GetProp(c["res"], "headersSent")) THEN "sent" ELSE "unsent"

\* context.res.status is callable only on the response object
CanWrite(c) == Lookup(c, "res") = ResHandle

TypeError(src) == Err("TypeError", src)

(***************************************************************************)
(* The executor.  An activation of an async function of FluxExecutor is a  *)
(* frame; a task is a stack of frames: task 1 runs executeFlux, and every  *)
(* branch of a parallel node runs in a task of its own.                    *)
(***************************************************************************)
VARIABLES
  flux,         \* the flux definition of the request
  ctx,          \* the request context
  headersSent,  \* res.headersSent of the response object
  resCalls,     \* the writes the response object has taken, in order
  tasks,        \* the tasks of the request
  startQueue,   \* branch tasks created by a map() that have not run yet
  log           \* history: what the flow did, in order

executorVars == <<flux, ctx, headersSent, resCalls, tasks, startQueue, log>>

(***************************************************************************)
(* The server that owns the executor: its configuration, the environment   *)
(* it starts in, its plugins and its loader.                               *)
(***************************************************************************)
VARIABLES
  config,   \* FluxServer.config, as read from the configuration file
  env,      \* process.env.DATABASE_URL and the files under paths.actions and paths.flux
  plugins,  \* FluxServer.plugins: the instance registered under each plugin name
  db,       \* the PostgresPlugin instance
  loader,   \* FluxLoader: its action table and its fluxErrors
  server,   \* FluxServer: where start() is, its routes, whether it listens
  setups,    \* history: the calls the server has made on its plugins, in order
  client    \* what the latest call of getClient on the instance ended with

serverVars == <<config, env, plugins, db, loader, server, setups, client>>

\* FluxLoader.getAction(path) finds a handler in the table of the loader
getAction(path) == path \in DOMAIN loader.actions

(***************************************************************************)
(* The requests the server serves at the same time.  A context is an       *)
(* object: heap holds the context objects by address.  The executor        *)
(* variables hold the request whose flow is running, with ctx the object   *)
(* at ref; the other request in flight is suspended at an await.           *)
(***************************************************************************)
VARIABLES
  heap,     \* the context objects, as their requests left them
  ref,      \* the address of the context of the running request
  parked    \* the request that is suspended, NoRequest if there is none

requestVars == <<heap, ref, parked>>

(***************************************************************************)
(* A call of a function of the interpolator or of the validator.           *)
(***************************************************************************)
VARIABLES
  call,     \* the function called and its arguments
  returned  \* what the call returned, NoOut before it has

callVars == <<call, returned>>

vars == <<flux, ctx, headersSent, resCalls, tasks, startQueue, log,
          config, env, plugins, db, loader, server, setups, client,
          heap, ref, parked, call, returned>>

\* a frame whose action node has its args resolved in place
Frame_inPlace(fn, p, blk, k, nodes, node) ==
  [fn |-> fn, p |-> p, blk |-> blk, k |-> k, nodes |-> nodes, i |-> 1,
   node |-> IF fn = "executeAction" /\ Truthy(node.args)
            THEN [node EXCEPT !.args =
                    Obj([key \in DOMAIN node.args.v |-> resolve(node.args.v[key], ctx)])]
            ELSE node,
   items |-> <<>>, kids |-> {}, out |-> NoOut]

\* a frame walks nodes (block blk of the node at path p) and is at node i
Frame(fn, p, blk, k, nodes, node) ==
  [fn |-> fn, p |-> p, blk |-> blk, k |-> k, nodes |-> nodes, i |-> 1,
   node |-> node, items |-> <<>>, kids |-> {}, out |-> NoOut]

Task(stack, parent) == [stack |-> stack, status |-> "running", parent |-> parent, err |-> Undef]

Event(e, p, t, n, v) == [e |-> e, p |-> p, t |-> t, n |-> n, v |-> v]

Top(stk) == stk[Len(stk)]
Pop(stk) == SubSeq(stk, 1, Len(stk) - 1)
SetTop(stk, f) == [stk EXCEPT ![Len(stk)] = f]
CurNode(f) == f.nodes[f.i]
\* the place of the node a frame is at: block, iteration or branch, index
NodePath(f) == Append(f.p, [b |-> f.blk, k |-> f.k, i |-> f.i])
Without(q, t) == SelectSeq(q, LAMBDA u : u # t)

\* a write on the response: res.status(status).send(body) or .json(body)
Write(status, body, via) == [status |-> status, body |-> body, via |-> via]
SuccessBody == Obj([success |-> Bool(TRUE)])
ErrorBody == Obj([error |-> Str("Internal server error")])

\* for (const n of nodes) { if (await this.executeNode(n, ...)) ... }: the next node
NextIndex(i) == i + 1

\* a failure that unwinds to the outermost try frame instead
CatchingFrame_outermost(stk) ==
  LET C == {j \in 1..Len(stk) : stk[j].fn = "executeTry" /\ stk[j].blk = "try"} IN
  IF C = {} THEN 0 ELSE CHOOSE j \in C : \A m \in C : m >= j

\* a failure that a try frame catches again while it runs its catch block
CatchingFrame_again(stk) ==
  LET C == {j \in 1..Len(stk) : stk[j].fn = "executeTry"} IN
  IF C = {} THEN 0 ELSE CHOOSE j \in C : \A m \in C : m <= j

\* the try frame below which a failure stops unwinding: the innermost one
\* that is still in its try block
CatchingFrame(stk) ==
  LET C == {j \in 1..Len(stk) : stk[j].fn = "executeTry" /\ stk[j].blk = "try"} IN
  IF C = {} THEN 0 ELSE CHOOSE j \in C : \A m \in C : m <= j

\* a catch clause that forgets to bind the error
BindError_unbound(node, err, c) == c

\* executeTry's catch clause: if (node.errorVar) context[node.errorVar] = error
BindError(node, err, c) ==
  IF Truthy(node.errorVar) THEN Put(c, node.errorVar.v, err) ELSE c

(***************************************************************************)
(* Cont: control comes back to the function whose frame tops stk, the node *)
(* it awaited having ended normally, with executeNode returning true       *)
(* ("return"), or with a failure ("throw").  The result is the task's new  *)
(* stack and status, the context and the events of the way there.          *)
(***************************************************************************)
RECURSIVE Cont(_, _, _, _, _, _)
Cont(stk, o, err, c, hs, t) ==
  LET f == Top(stk) IN
  CASE o = "throw" ->
         LET j == CatchingFrame(stk) IN
         IF j > 0
         THEN [stk |-> Append(SubSeq(stk, 1, j - 1),
                              [stk[j] EXCEPT !.blk = "catch", !.nodes = stk[j].node.catch,
                                             !.i = 1]),
               st |-> "running", c |-> BindError(stk[j].node, err, c), err |-> Undef,
               ev |-> <<Event("catch", stk[j].p, t, 0, err)>>]
         ELSE IF stk[1].fn = "executeFlux" /\ stk[1].blk = "flow"
         THEN [stk |-> <<[stk[1] EXCEPT !.blk = "catch", !.out = [kind |-> "throw", v |-> err]]>>,
               st |-> "running", c |-> c, err |-> Undef,
               ev |-> <<Event("topcatch", <<>>, t, 0, err)>>]
         ELSE [stk |-> <<>>, st |-> "rejected", c |-> c, err |-> err, ev |-> <<>>]
    [] o = "return" ->
         IF f.fn = "executeFlux"
         THEN [stk |-> SetTop(stk, [f EXCEPT !.i = Len(f.nodes) + 1]),
               st |-> "running", c |-> c, err |-> Undef, ev |-> <<>>]
         ELSE IF f.fn = "branch"
         THEN [stk |-> <<>>, st |-> "fulfilled", c |-> c, err |-> Undef, ev |-> <<>>]
         ELSE LET R == Cont(Pop(stk), "normal", err, c, hs, t) IN
              [R EXCEPT !.ev = <<Event("done", f.p, t, 1, Undef)>> \o R.ev]
    [] o = "normal" ->
         IF f.fn = "executeFlux"
         THEN LET r == ReadHeadersSent(c, hs) IN
              IF r = "throw" THEN Cont(stk, "throw", TypeError(<<>>), c, hs, t)
              ELSE [stk |-> SetTop(stk, [f EXCEPT !.i = IF r = "sent" THEN Len(f.nodes) + 1
                                                       ELSE NextIndex(f.i)]),
                    st |-> "running", c |-> c, err |-> Undef, ev |-> <<>>]
         ELSE [stk |-> SetTop(stk, [f EXCEPT !.i = NextIndex(f.i)]),
               st |-> "running", c |-> c, err |-> Undef, ev |-> <<>>]

\* a Promise.all that no rejection reaches
JoinTakes_never(t, R) == FALSE

\* Promise.all: a rejected branch rejects the join of its parallel node if
\* that join is still pending and no branch rejected before
JoinTakes(t, R) ==
  LET par == tasks[t].parent IN
  /\ R.st = "rejected"
  /\ par # 0
  /\ tasks[par].status = "running"
  /\ tasks[par].stack # <<>>
  /\ Top(tasks[par].stack).fn = "executeParallel"
  /\ t \in Top(tasks[par].stack).kids
  /\ Top(tasks[par].stack).out = NoOut

\* the events kept of a walk: the last MaxLog
MaxLog == 64
Kept(events) ==
  IF Len(events) <= MaxLog THEN events
  ELSE SubSeq(events, Len(events) - MaxLog + 1, Len(events))

\* the step of task t ends as R says
Commit(t, R, hs, calls, evs, queue, spawned) ==
  LET par == tasks[t].parent
      me == [tasks[t] EXCEPT !.stack = R.stk, !.status = R.st, !.err = R.err]
      told == IF JoinTakes(t, R)
              THEN [tasks EXCEPT ![t] = me,
                                 ![par].stack = SetTop(@, [Top(@) EXCEPT
                                     !.out = [kind |-> "throw", v |-> R.err]])]
              ELSE [tasks EXCEPT ![t] = me]
      lost == IF R.st = "rejected" /\ par # 0 /\ ~JoinTakes(t, R)
              THEN <<Event("drop", <<>>, t, 0, R.err)>> ELSE <<>>
  IN
  /\ ctx' = R.c
  /\ headersSent' = hs
  /\ resCalls' = calls
  /\ log' = Kept(log \o evs \o R.ev \o lost)
  /\ tasks' = told \o spawned
  /\ startQueue' = queue
  /\ flux' = flux
  /\ UNCHANGED <<serverVars, requestVars, callVars>>

Runnable(t) ==
  /\ t \in DOMAIN tasks
  /\ tasks[t].status = "running"
  /\ (IF startQueue = <<>> THEN TRUE ELSE Head(startQueue) = t)

IsWalker(f) ==
  \/ f.fn \in {"executeCondition", "executeForEach", "executeTry", "branch"}
  \/ f.fn = "executeFlux" /\ f.blk = "flow"

\* task t is about to call executeNode on a node of the given type
AtNode(t, type) ==
  /\ Runnable(t)
  /\ IsWalker(Top(tasks[t].stack))
  /\ Top(tasks[t].stack).i <= Len(Top(tasks[t].stack).nodes)
  /\ CurNode(Top(tasks[t].stack)).type = type

\* the loop of the function fn of task t has run out of nodes
AtEnd(t, fn) ==
  /\ Runnable(t)
  /\ Top(tasks[t].stack).fn = fn
  /\ IsWalker(Top(tasks[t].stack))
  /\ Top(tasks[t].stack).i > Len(Top(tasks[t].stack).nodes)

(***************************************************************************)
(* executeAction                                                           *)
(***************************************************************************)
\* the args handed to the handler: each value of node.args resolved
ResolvedArgs(node, c) == Obj([key \in DOMAIN node.args.v |-> resolve(node.args.v[key], c)])

\* lines 84-92: context.args before the handler is called
WithArgs(node, c) ==
  IF Truthy(node.args) THEN Put(c, "args", ResolvedArgs(node, c)) ELSE Del(c, "args")

\* context.results[name] = result succeeds only on an object
CanStore(c) == Lookup(c, "results").t = "object"

\* lines 101-104: the result stored for downstream nodes, args dropped
StoreResult(node, result, c) ==
  LET c1 == Put(c, "results", Obj(Put(c["results"].v, node.name, result)))
      c2 == Put(c1, node.name, result)
  IN Del(c2, "args")

\* input.xs is kept up to MaxLen elements: of a longer array the last MaxLen
\* elements are kept, and the loops over the array count from the first
\* element that is kept
MaxLen == 5

\* the handler at path, called on c, pushes on an array that is MaxLen long
Slides(path, c) ==
  LET xs == getValueByPath("input.xs", c) IN
  path = "grow" /\ xs.t = "array" /\ Len(xs.v) = MaxLen

\* what the handler registered at path writes on context c before it
\* returns: the handler at "grow" does context.input.xs.push(0)
HandlerEffect(path, c) ==
  LET xs == getValueByPath("input.xs", c) IN
  IF path = "grow" /\ xs.t = "array"
  THEN Put(c, "input",
           Obj(Put(c["input"].v, "xs",
                   Arr(Append(IF Slides(path, c) THEN Tail(xs.v) ELSE xs.v, Num(0))))))
  ELSE c

\* the frames of the caller once the handler at path has run: a loop over
\* input.xs is one element further from the first element kept (the loops
\* over input.xs of these flows are frames of the task that calls the handler)
Slid(stk, path, c) ==
  IF Slides(path, c)
  THEN [i \in DOMAIN stk |->
          IF stk[i].fn = "executeForEach" /\ stk[i].node.items = "${input.xs}"
          THEN [stk[i] EXCEPT !.k = @ - 1] ELSE stk[i]]
  ELSE stk

\* the handler is looked up, the args are resolved and the handler is called
ExecuteAction(t) ==
  /\ AtNode(t, "action")
  /\ LET stk == tasks[t].stack
         f == Top(stk)
         node == CurNode(f)
         p == NodePath(f)
     IN
     IF ~getAction(node.path)
     THEN LET e == Err("Action not found: " \o node.path, p) IN
          Commit(t, Cont(stk, "throw", e, ctx, headersSent, t), headersSent, resCalls,
                 <<Event("begin", p, t, 0, Undef), Event("throw", p, t, 0, e)>>,
                 Without(startQueue, t), <<>>)
     ELSE LET c1 == WithArgs(node, ctx) IN
          \E out \in HandlerOutcomes(node.path, c1) :
            Commit(t,
                   [stk |-> Append(Slid(stk, node.path, c1),
                                   [Frame("executeAction", p, "", 0, <<>>, node)
                                      EXCEPT !.out = out]),
                    st |-> "running", c |-> HandlerEffect(node.path, c1), err |-> Undef,
                    ev |-> <<>>],
                   headersSent, resCalls,
                   <<Event("begin", p, t, 0, Lookup(c1, "args"))>>,
                   Without(startQueue, t), <<>>)

\* the awaited handler returned
ActionReturns(t) ==
  /\ Runnable(t)
  /\ Top(tasks[t].stack).fn = "executeAction"
  /\ Top(tasks[t].stack).out.kind = "return"
  /\ LET stk == tasks[t].stack
         f == Top(stk)
     IN
     IF CanStore(ctx)
     THEN Commit(t, Cont(Pop(stk), "normal", Undef,
                         StoreResult(f.node, f.out.v, ctx), headersSent, t),
                 headersSent, resCalls,
                 <<Event("done", f.p, t, 0, f.out.v)>>, Without(startQueue, t), <<>>)
     ELSE LET e == TypeError(f.p) IN
          Commit(t, Cont(Pop(stk), "throw", e, ctx, headersSent, t), headersSent, resCalls,
                 <<Event("throw", f.p, t, 0, e)>>, Without(startQueue, t), <<>>)

\* the awaited handler threw
ActionThrows(t) ==
  /\ Runnable(t)
  /\ Top(tasks[t].stack).fn = "executeAction"
  /\ Top(tasks[t].stack).out.kind = "throw"
  /\ LET stk == tasks[t].stack
         f == Top(stk)
         e == Err(f.out.v.v, f.p)
     IN Commit(t, Cont(Pop(stk), "throw", e, ctx, headersSent, t), headersSent, resCalls,
               <<Event("throw", f.p, t, 1, e)>>, Without(startQueue, t), <<>>)

(***************************************************************************)
(* executeCondition                                                        *)
(***************************************************************************)
\* lines 108-111: the value the branch is taken on
ConditionValue(node, c) == Truthy(resolve(Str(node.if), c))

ExecuteCondition(t) ==
  /\ AtNode(t, "condition")
  /\ LET stk == tasks[t].stack
         f == Top(stk)
         node == CurNode(f)
         p == NodePath(f)
         cond == ConditionValue(node, ctx)
         begin == Event("begin", p, t, 0, Bool(cond))
     IN
     IF cond
     THEN Commit(t, [stk |-> Append(stk, Frame("executeCondition", p, "then", 0, node.then, node)),
                     st |-> "running", c |-> ctx, err |-> Undef, ev |-> <<>>],
                 headersSent, resCalls, <<begin>>, startQueue, <<>>)
     ELSE IF node.else.t # "undefined"
     THEN Commit(t, [stk |-> Append(stk, Frame("executeCondition", p, "else", 0, node.else.v, node)),
                     st |-> "running", c |-> ctx, err |-> Undef, ev |-> <<>>],
                 headersSent, resCalls, <<begin>>, startQueue, <<>>)
     ELSE Commit(t, Cont(stk, "normal", Undef, ctx, headersSent, t), headersSent, resCalls,
                 <<begin, Event("done", p, t, 0, Undef)>>, Without(startQueue, t), <<>>)

\* the loop over then or else ran out
ConditionReturns(t) ==
  /\ AtEnd(t, "executeCondition")
  /\ LET stk == tasks[t].stack
         f == Top(stk)
     IN Commit(t, Cont(Pop(stk), "normal", Undef, ctx, headersSent, t), headersSent, resCalls,
               <<Event("done", f.p, t, 0, Undef)>>, Without(startQueue, t), <<>>)

(***************************************************************************)
(* executeForEach                                                          *)
(***************************************************************************)
\* a loop that walks the items from the last to the first
ForEachItem_backwards(items, k) == items[Len(items) - k]

\* for (const item of items): the item of the iteration after k iterations
ForEachItem(items, k) == items[k + 1]

\* the array the loop of frame f iterates: resolve returns the value found
\* at "${path}" itself (interpolator.ts 104-107), so the loop sees what the
\* handlers of its body push on that array; no node of the flows rebinds
\* input or input.xs, and the array is read where it is kept
Items(f, c) ==
  LET live == resolve(Str(f.node.items), c) IN
  IF live.t = "array" THEN live.v ELSE f.items

\* line 125: Array.isArray(items)
IsIterable(items) == items.t = "array"

ExecuteForEach(t) ==
  /\ AtNode(t, "forEach")
  /\ LET stk == tasks[t].stack
         f == Top(stk)
         node == CurNode(f)
         p == NodePath(f)
         items == resolve(Str(node.items), ctx)
         begin == Event("begin", p, t, 0, items)
     IN
     IF ~IsIterable(items)
     THEN Commit(t, Cont(stk, "normal", Undef, ctx, headersSent, t), headersSent, resCalls,
                 <<begin, Event("warn", p, t, 0, Undef), Event("done", p, t, 0, Undef)>>,
                 Without(startQueue, t), <<>>)
     ELSE Commit(t, [stk |-> Append(stk, [Frame("executeForEach", p, "do", 0, node.do, node)
                                            EXCEPT !.items = items.v, !.i = Len(node.do) + 1]),
                     st |-> "running", c |-> ctx, err |-> Undef, ev |-> <<>>],
                 headersSent, resCalls, <<begin>>, startQueue, <<>>)

\* the next item is bound at context[as] and the body starts over
ForEachNext(t) ==
  /\ AtEnd(t, "executeForEach")
  /\ Top(tasks[t].stack).k < Len(Items(Top(tasks[t].stack), ctx))
  /\ LET stk == tasks[t].stack
         f == Top(stk)
         item == ForEachItem(Items(f, ctx), f.k)
     IN Commit(t, [stk |-> SetTop(stk, [f EXCEPT !.k = f.k + 1, !.i = 1]),
                   st |-> "running", c |-> Put(ctx, f.node.as, item), err |-> Undef,
                   ev |-> <<>>],
               headersSent, resCalls, <<Event("iter", f.p, t, f.k + 1, item)>>,
               startQueue, <<>>)

\* the items ran out: context[as] is deleted
ForEachReturns(t) ==
  /\ AtEnd(t, "executeForEach")
  /\ Top(tasks[t].stack).k >= Len(Items(Top(tasks[t].stack), ctx))
  /\ LET stk == tasks[t].stack
         f == Top(stk)
     IN Commit(t, Cont(Pop(stk), "normal", Undef, Del(ctx, f.node.as), headersSent, t),
               headersSent, resCalls, <<Event("done", f.p, t, 0, Undef)>>,
               Without(startQueue, t), <<>>)

(***************************************************************************)
(* executeParallel                                                         *)
(***************************************************************************)
\* branches.map(async (branch) => ...): one task per branch, each run up to
\* its first await in the order of the branches, before anything else runs
ExecuteParallel(t) ==
  /\ AtNode(t, "parallel")
  /\ LET stk == tasks[t].stack
         f == Top(stk)
         node == CurNode(f)
         p == NodePath(f)
         n == Len(node.branches)
         ids == [j \in 1..n |-> Len(tasks) + j]
         kids == [j \in 1..n |->
                    Task(<<Frame("branch", p, "branches", j, node.branches[j], node)>>, t)]
     IN Commit(t, [stk |-> Append(stk, [Frame("executeParallel", p, "", 0, <<>>, node)
                                          EXCEPT !.kids = {ids[j] : j \in 1..n}]),
                   st |-> "running", c |-> ctx, err |-> Undef, ev |-> <<>>],
               headersSent, resCalls, <<Event("begin", p, t, n, Undef)>>,
               ids \o Without(startQueue, t), kids)

\* the loop of a branch ran out: its promise is fulfilled
BranchReturns(t) ==
  /\ AtEnd(t, "branch")
  /\ Commit(t, [stk |-> <<>>, st |-> "fulfilled", c |-> ctx, err |-> Undef, ev |-> <<>>],
            headersSent, resCalls, <<>>, Without(startQueue, t), <<>>)

\* await Promise.all(promises) when every branch is fulfilled
ParallelResolves(t) ==
  /\ Runnable(t)
  /\ Top(tasks[t].stack).fn = "executeParallel"
  /\ Top(tasks[t].stack).out = NoOut
  /\ \A u \in Top(tasks[t].stack).kids : tasks[u].status = "fulfilled"
  /\ LET stk == tasks[t].stack
         f == Top(stk)
     IN Commit(t, Cont(Pop(stk), "normal", Undef, ctx, headersSent, t), headersSent, resCalls,
               <<Event("done", f.p, t, 0, Undef)>>, Without(startQueue, t), <<>>)

\* await Promise.all(promises) when a branch has rejected
ParallelRejects(t) ==
  /\ Runnable(t)
  /\ Top(tasks[t].stack).fn = "executeParallel"
  /\ Top(tasks[t].stack).out.kind = "throw"
  /\ LET stk == tasks[t].stack
         f == Top(stk)
     IN Commit(t, Cont(Pop(stk), "throw", f.out.v, ctx, headersSent, t), headersSent, resCalls,
               <<Event("rethrow", f.p, t, 0, f.out.v)>>, Without(startQueue, t), <<>>)

(***************************************************************************)
(* executeTry                                                              *)
(***************************************************************************)
ExecuteTry(t) ==
  /\ AtNode(t, "try")
  /\ LET stk == tasks[t].stack
         f == Top(stk)
         node == CurNode(f)
         p == NodePath(f)
     IN Commit(t, [stk |-> Append(stk, Frame("executeTry", p, "try", 0, node.try, node)),
                   st |-> "running", c |-> ctx, err |-> Undef, ev |-> <<>>],
               headersSent, resCalls, <<Event("begin", p, t, 0, Undef)>>, startQueue, <<>>)

\* the loop over try, or over catch, ran out
TryReturns(t) ==
  /\ AtEnd(t, "executeTry")
  /\ LET stk == tasks[t].stack
         f == Top(stk)
     IN Commit(t, Cont(Pop(stk), "normal", Undef, ctx, headersSent, t), headersSent, resCalls,
               <<Event("done", f.p, t, 0, Undef)>>, Without(startQueue, t), <<>>)

(***************************************************************************)
(* executeReturn                                                           *)
(***************************************************************************)
\* line 172
ReturnBody(node, c) == IF Truthy(node.body) THEN resolve(node.body, c) ELSE Undef
\* line 173
ReturnStatus(node) == IF Truthy(node.status) THEN node.status.v ELSE 200

\* line 175: context.res.status(status).send(body), whatever res.headersSent
\* is.  What a send does on a response whose headers are sent is up to the
\* response object: it takes the write, or it raises ERR_HTTP_HEADERS_SENT.
ExecuteReturn(t) ==
  /\ AtNode(t, "return")
  /\ LET stk == tasks[t].stack
         f == Top(stk)
         node == CurNode(f)
         p == NodePath(f)
         w == Write(ReturnStatus(node), ReturnBody(node, ctx), "send")
         begin == Event("begin", p, t, 0, Undef)
     IN
     IF ~CanWrite(ctx)
     THEN LET e == TypeError(p) IN
          Commit(t, Cont(stk, "throw", e, ctx, headersSent, t), headersSent, resCalls,
                 <<begin, Event("throw", p, t, 0, e)>>, Without(startQueue, t), <<>>)
     ELSE IF ~headersSent
     THEN Commit(t, Cont(stk, "return", Undef, ctx, TRUE, t), TRUE, Append(resCalls, w),
                 <<begin, Event("return", p, t, 0, w.body)>>, Without(startQueue, t), <<>>)
     ELSE \/ Commit(t, Cont(stk, "return", Undef, ctx, TRUE, t), TRUE, Append(resCalls, w),
                    <<begin, Event("return", p, t, 1, w.body)>>, Without(startQueue, t), <<>>)
          \/ LET e == Err("ERR_HTTP_HEADERS_SENT", p) IN
             Commit(t, Cont(stk, "throw", e, ctx, TRUE, t), TRUE, resCalls,
                    <<begin, Event("throw", p, t, 0, e)>>, Without(startQueue, t), <<>>)

(***************************************************************************)
(* executeFlux                                                             *)
(***************************************************************************)
\* lines 36-41: the walk of flux.flow is over
FluxTail(t) ==
  /\ AtEnd(t, "executeFlux")
  /\ LET stk == tasks[t].stack
         r == ReadHeadersSent(ctx, headersSent)
         finished == [stk |-> <<>>, st |-> "fulfilled", c |-> ctx, err |-> Undef, ev |-> <<>>]
     IN
     IF r = "sent"
     THEN Commit(t, finished, headersSent, resCalls, <<>>, Without(startQueue, t), <<>>)
     ELSE IF r = "unsent" /\ CanWrite(ctx)
     THEN Commit(t, finished, TRUE, Append(resCalls, Write(200, SuccessBody, "send")),
                 <<Event("tail", <<>>, t, 0, Undef)>>, Without(startQueue, t), <<>>)
     ELSE Commit(t, Cont(stk, "throw", TypeError(<<>>), ctx, headersSent, t),
                 headersSent, resCalls, <<>>, Without(startQueue, t), <<>>)

\* lines 42-47: the catch clause of executeFlux
FluxCatch(t) ==
  /\ Runnable(t)
  /\ Top(tasks[t].stack).fn = "executeFlux"
  /\ Top(tasks[t].stack).blk = "catch"
  /\ LET stk == tasks[t].stack
         r == ReadHeadersSent(ctx, headersSent)
         finished == [stk |-> <<>>, st |-> "fulfilled", c |-> ctx, err |-> Undef, ev |-> <<>>]
     IN
     IF r = "sent"
     THEN Commit(t, finished, headersSent, resCalls, <<>>, Without(startQueue, t), <<>>)
     ELSE IF r = "unsent" /\ CanWrite(ctx)
     THEN Commit(t, finished, TRUE, Append(resCalls, Write(500, ErrorBody, "json")),
                 <<Event("error500", <<>>, t, 0, Undef)>>, Without(startQueue, t), <<>>)
     ELSE Commit(t, [stk |-> <<>>, st |-> "rejected", c |-> ctx, err |-> TypeError(<<>>),
                     ev |-> <<>>],
                 headersSent, resCalls, <<>>, Without(startQueue, t), <<>>)

(***************************************************************************)
(* PostgresPlugin (src/src/plugins/database/postgres.ts).  The pool of pg  *)
(* is outside the repository: connecting it succeeds or fails.             *)
(***************************************************************************)
\* new Pool(dbConfig); connected tells whether pool.connect() has succeeded
Pool(connected) == [t |-> "pool", connected |-> connected]

\* new PostgresPlugin()
PostgresPlugin == [name |-> "db", pool |-> Null]

\* line 16: config.connectionString || process.env.DATABASE_URL
ConnectionString(pluginConfig, url) ==
  IF Truthy(GetProp(pluginConfig, "connectionString"))
  THEN GetProp(pluginConfig, "connectionString") ELSE url

\* setup(config): the outcomes of one call, each with the plugin it leaves
setup(plugin, pluginConfig, url) ==
  IF ~Truthy(ConnectionString(pluginConfig, url))
  THEN {[plugin |-> plugin, out |-> Returns(Undef)]}
  ELSE {[plugin |-> [plugin EXCEPT !.pool = Pool(TRUE)], out |-> Returns(Undef)],
        [plugin |-> [plugin EXCEPT !.pool = Pool(FALSE)], out |-> Throws("Connection refused")]}

\* getClient(): the client, or the failure of a plugin without a pool
getClient(plugin) ==
  IF plugin.pool = Null
  THEN Throws("[PostgresPlugin] Database not initialized")
  ELSE Returns([t |-> "client", pool |-> plugin.pool])

(***************************************************************************)
(* The configuration file and the environment of the process.              *)
(***************************************************************************)
MaxFiles == 2

\* an entry of config.plugins
PluginEntry(key, type, connectionString) ==
  [key |-> key,
   config |-> IF connectionString = Undef THEN Obj([type |-> Str(type)])
              ELSE Obj([type |-> Str(type), connectionString |-> connectionString])]

\* Object.entries(config.plugins)
Entries(seq) == [t |-> "entries", v |-> seq]

\* config.plugins; Undef when the configuration file has no plugins
PluginConfigs ==
  {Undef,
   Entries(<<PluginEntry("database", "postgres", Str("postgres://db"))>>),
   Entries(<<PluginEntry("database", "postgres", Undef)>>),
   Entries(<<PluginEntry("database", "mysql", Str("mysql://db"))>>),
   Entries(<<PluginEntry("cache", "redis", Undef)>>),
   Entries(<<PluginEntry("cache", "redis", Undef),
             PluginEntry("database", "postgres", Str("postgres://db"))>>)}

Configs == {[plugins |-> P] : P \in PluginConfigs}

\* the implementation init() has for an entry of config.plugins, if any
Implemented(entry) ==
  entry.key = "database" /\ GetProp(entry.config, "type") = Str("postgres")

\* the sequences of at most n elements of S
RECURSIVE SeqsUpTo(_, _)
SeqsUpTo(S, n) ==
  IF n = 0 THEN {<<>>}
  ELSE SeqsUpTo(S, n - 1) \cup {Append(s, e) : s \in {r \in SeqsUpTo(S, n - 1) : Len(r) = n - 1},
                                               e \in S}

(***************************************************************************)
(* FluxValidator (src/src/core/validator.ts): the JSON schema of a flux    *)
(* definition, checked on the value JSON.parse returned.                   *)
(***************************************************************************)
Methods == {"GET", "POST", "PUT", "DELETE", "PATCH", "OPTIONS", "HEAD"}

\* required: [...]
Required(v, keys) == keys \subseteq DOMAIN v.v
\* properties: {key: {type}}: a property that is present has the type
Typed(v, key, type) == key \in DOMAIN v.v => v.v[key].t = type
\* properties: {type: {const}}
Const(v, name) == "type" \in DOMAIN v.v => v.v["type"] = Str(name)

RECURSIVE flowNode(_)
\* {type: 'array', items: {$ref: '#/definitions/flowNode'}} on a property
NodeArray(v, key) ==
  key \in DOMAIN v.v =>
    /\ v.v[key].t = "array"
    /\ \A i \in 1..Len(v.v[key].v) : flowNode(v.v[key].v[i])

actionNode(n) ==
  /\ Const(n, "action") /\ Typed(n, "name", "string") /\ Typed(n, "path", "string")
  /\ Typed(n, "args", "object")
  /\ Required(n, {"type", "name", "path"})
conditionNode(n) ==
  /\ Const(n, "condition") /\ Typed(n, "if", "string")
  /\ NodeArray(n, "then") /\ NodeArray(n, "else")
  /\ Required(n, {"type", "if", "then"})
forEachNode(n) ==
  /\ Const(n, "forEach") /\ Typed(n, "items", "string") /\ Typed(n, "as", "string")
  /\ NodeArray(n, "do")
  /\ Required(n, {"type", "items", "as", "do"})
parallelNode(n) ==
  /\ Const(n, "parallel")
  /\ "branches" \in DOMAIN n.v =>
       /\ n.v["branches"].t = "array"
       /\ \A j \in 1..Len(n.v["branches"].v) :
            LET branch == n.v["branches"].v[j] IN
            /\ branch.t = "array"
            /\ \A i \in 1..Len(branch.v) : flowNode(branch.v[i])
  /\ Required(n, {"type", "branches"})
tryNode(n) ==
  /\ Const(n, "try") /\ NodeArray(n, "try") /\ NodeArray(n, "catch")
  /\ Typed(n, "errorVar", "string")
  /\ Required(n, {"type", "try", "catch"})
\* a schema of the return node that does not require the body
returnNode_noBody(n) ==
  /\ Const(n, "return") /\ Typed(n, "status", "number")
  /\ Required(n, {"type"})
returnNode(n) ==
  /\ Const(n, "return") /\ Typed(n, "status", "number")
  /\ Required(n, {"type", "body"})

\* {type: 'object', oneOf: [...]}: exactly one of the six schemas matches
flowNode(n) ==
  /\ n.t = "object"
  /\ Cardinality({s \in 1..6 :
                    CASE s = 1 -> actionNode(n)
                      [] s = 2 -> conditionNode(n)
                      [] s = 3 -> forEachNode(n)
                      [] s = 4 -> parallelNode(n)
                      [] s = 5 -> tryNode(n)
                      [] s = 6 -> returnNode(n)}) = 1

\* validate.errors, one message for each keyword that fails at the top level
\* and one for each node of flow that matches no schema or several
SchemaErrors(d) ==
  IF d.t # "object" THEN <<" must be object">>
  ELSE (IF "endpoint" \in DOMAIN d.v THEN <<>>
        ELSE <<" must have required property 'endpoint'">>)
    \o (IF "method" \in DOMAIN d.v THEN <<>>
        ELSE <<" must have required property 'method'">>)
    \o (IF "flow" \in DOMAIN d.v THEN <<>>
        ELSE <<" must have required property 'flow'">>)
    \o (IF Typed(d, "endpoint", "string") THEN <<>> ELSE <<"/endpoint must be string">>)
    \o (IF Typed(d, "method", "string") THEN <<>> ELSE <<"/method must be string">>)
    \o (IF "method" \in DOMAIN d.v /\ d.v["method"].t = "string"
           /\ d.v["method"].v \notin Methods
        THEN <<"/method must be equal to one of the allowed values">> ELSE <<>>)
    \o (IF Typed(d, "description", "string") THEN <<>>
        ELSE <<"/description must be string">>)
    \o (IF Typed(d, "flow", "array") THEN <<>> ELSE <<"/flow must be array">>)
    \o (IF "flow" \in DOMAIN d.v /\ d.v["flow"].t = "array"
        THEN LET bad == SelectSeq([i \in 1..Len(d.v["flow"].v) |-> i],
                                  LAMBDA i : ~flowNode(d.v["flow"].v[i]))
             IN [k \in 1..Len(bad) |->
                   "/flow/" \o NatToStr(bad[k] - 1) \o " must match exactly one schema in oneOf"]
        ELSE <<>>)

\* FluxValidator.validate
validate(definition) ==
  LET errors == SchemaErrors(definition) IN
  [valid |-> errors = <<>>, errors |-> errors]

(***************************************************************************)
(* The files of the environment.  An action file is given by what loading  *)
(* it yields; a flux file by what reading and parsing it yields, with the  *)
(* value JSON.parse returns for a text that is JSON.                       *)
(***************************************************************************)
\* import(file) yields a function, yields something else, or fails
ActionFileKinds == {"function", "value", "throws"}

Dir(files) == [t |-> "dir", v |-> files]
Unreadable == [t |-> "unreadable"]
Garbage == [t |-> "garbage"]
Json(value) == [t |-> "json", v |-> value]

JsonReturn(body) == Obj([type |-> Str("return"), body |-> body])
JsonFlux(method, flow) ==
  Obj([endpoint |-> Str("/a"), method |-> Str(method), flow |-> Arr(flow)])

FluxFileContents ==
  { Unreadable,
    Garbage,
    Json(Null),
    Json(JsonFlux("GET", <<JsonReturn(Str("ok"))>>)),
    Json(JsonFlux("FETCH", <<JsonReturn(Str("ok"))>>)),
    Json(JsonFlux("POST",
                  <<Obj([type |-> Str("condition"), if |-> Str("${input.flag}"),
                         then |-> Arr(<<Obj([type |-> Str("return")])>>)])>>)),
    Json(JsonFlux("POST",
                  <<Obj([type |-> Str("parallel"),
                         branches |-> Arr(<<Arr(<<JsonReturn(Num(0))>>)>>)])>>)) }

\* the relative path of the i-th file without its extension, and the i-th file
ActionKey(i) == "a" \o NatToStr(i)
FluxFile(i) == "f" \o NatToStr(i) \o ".json"

\* DATABASE_URL, the directory of the actions and that of the flux files;
\* Undef stands for a variable that is not set and a directory that is missing
Environments ==
  {[DATABASE_URL |-> u, actions |-> a, flux |-> f] :
     u \in {Undef, Str("postgres://env")},
     a \in {Undef} \cup {Dir(s) : s \in SeqsUpTo(ActionFileKinds, MaxFiles)},
     f \in {Undef} \cup {Dir(s) : s \in SeqsUpTo(FluxFileContents, MaxFiles)}}

(***************************************************************************)
(* FluxLoader (src/src/core/loader.ts)                                     *)
(***************************************************************************)
NoActions == [k \in {} |-> "function"]
NewLoader == [actions |-> NoActions, fluxErrors |-> <<>>]

\* a load that a file without a handler empties the table of
LoadAction_dropsAll(actions, i, kind) ==
  IF kind = "function" THEN Put(actions, ActionKey(i), kind) ELSE NoActions

\* lines 58-73: one file of loadActions
LoadAction(actions, i, kind) ==
  IF kind = "function" THEN Put(actions, ActionKey(i), kind) ELSE actions

\* a load that returns every definition that parses, valid or not
LoadFlux_unvalidated(acc, i, content) ==
  IF content.t = "json" THEN [acc EXCEPT !.definitions = Append(@, content.v)]
  ELSE [acc EXCEPT !.fluxErrors = Append(@, [file |-> FluxFile(i), errors |-> <<"Error">>])]

\* lines 94-109: one file of loadFluxDefinitions, on the definitions and the
\* fluxErrors collected so far
LoadFlux(acc, i, content) ==
  CASE content.t = "unreadable" ->
         [acc EXCEPT !.fluxErrors =
            Append(@, [file |-> FluxFile(i), errors |-> <<"Error: EACCES">>])]
    [] content.t = "garbage" ->
         [acc EXCEPT !.fluxErrors =
            Append(@, [file |-> FluxFile(i), errors |-> <<"SyntaxError: Unexpected token">>])]
    [] content.t = "json" ->
         LET validation == validate(content.v) IN
         IF validation.valid
         THEN [acc EXCEPT !.definitions = Append(@, content.v)]
         ELSE [acc EXCEPT !.fluxErrors =
                 Append(@, [file |-> FluxFile(i), errors |-> validation.errors])]

(***************************************************************************)
(* FluxServer (src/src/core/server.ts), started by the start command       *)
(* (src/src/cli/commands/start.ts).                                        *)
(***************************************************************************)
NoPlugins == [k \in {} |-> "db"]

\* new FluxServer(): pc is the place of start(), entries the entries of
\* config.plugins that init() has not handled yet, i the file a load is at
NewServer ==
  [pc |-> "new", entries |-> <<>>, i |-> 0, definitions |-> <<>>, routes |-> <<>>,
   listening |-> FALSE, failure |-> Undef]

\* the process runs
Alive == server.pc \notin {"exited", "stopped"}

\* start() lines 69-71, init() lines 27-50: the configuration is read
InitConfig ==
  /\ server.pc = "new"
  /\ server' = [server EXCEPT !.pc = "plugins",
                              !.entries = IF Truthy(config.plugins) THEN config.plugins.v
                                          ELSE <<>>]
  /\ UNCHANGED <<config, env, plugins, db, loader, setups, client>>
  /\ UNCHANGED <<executorVars, requestVars, callVars>>

\* init() lines 51-61: one entry of config.plugins; the entry of a plugin
\* init() has an implementation for is set up and registered
InitPlugin ==
  /\ server.pc = "plugins"
  /\ server.entries # <<>>
  /\ LET entry == Head(server.entries) IN
     IF Implemented(entry)
     THEN \E r \in setup(PostgresPlugin, entry.config, env.DATABASE_URL) :
            /\ db' = r.plugin
            /\ setups' = Append(setups, [op |-> "setup", name |-> r.plugin.name,
                                       key |-> entry.key, out |-> r.out])
            /\ IF r.out.kind = "return"
               THEN /\ plugins' = Put(plugins, r.plugin.name, r.plugin.name)
                    /\ server' = [server EXCEPT !.entries = Tail(@)]
               ELSE /\ plugins' = plugins
                    /\ server' = [server EXCEPT !.pc = "rejected",
                                                !.failure = Err(r.out.v.v, <<>>)]
     ELSE /\ server' = [server EXCEPT !.entries = Tail(@)]
          /\ UNCHANGED <<plugins, db, setups>>
  /\ UNCHANGED <<config, env, loader, client>>
  /\ UNCHANGED <<executorVars, requestVars, callVars>>

\* start() before the plugins are ready
PluginsDone_early(s) == s.pc = "plugins"

\* await this.init() has returned: every entry of config.plugins is handled
PluginsDone(s) == s.pc = "plugins" /\ s.entries = <<>>

\* init() line 65, start() lines 73-78, loadActions lines 36-47
LoadActionsBegin ==
  /\ PluginsDone(server)
  /\ loader' = [loader EXCEPT !.actions = NoActions]
  /\ server' = IF env.actions = Undef
               THEN [server EXCEPT !.pc = "actionsLoaded"]
               ELSE [server EXCEPT !.pc = "actions", !.i = 1]
  /\ UNCHANGED <<config, env, plugins, db, setups, client>>
  /\ UNCHANGED <<executorVars, requestVars, callVars>>

\* loadActions lines 49-74: the next file
LoadActionFile ==
  /\ server.pc = "actions"
  /\ server.i <= Len(env.actions.v)
  /\ loader' = [loader EXCEPT !.actions = LoadAction(@, server.i, env.actions.v[server.i])]
  /\ server' = [server EXCEPT !.i = @ + 1]
  /\ UNCHANGED <<config, env, plugins, db, setups, client>>
  /\ UNCHANGED <<executorVars, requestVars, callVars>>

ActionsLoaded(s) ==
  \/ s.pc = "actionsLoaded"
  \/ s.pc = "actions" /\ s.i > Len(env.actions.v)

\* start() lines 80-82, loadFluxDefinitions lines 80-92
LoadFluxBegin ==
  /\ ActionsLoaded(server)
  /\ loader' = [loader EXCEPT !.fluxErrors = <<>>]
  /\ server' = IF env.flux = Undef
               THEN [server EXCEPT !.pc = "fluxLoaded", !.definitions = <<>>]
               ELSE [server EXCEPT !.pc = "flux", !.i = 1, !.definitions = <<>>]
  /\ UNCHANGED <<config, env, plugins, db, setups, client>>
  /\ UNCHANGED <<executorVars, requestVars, callVars>>

\* loadFluxDefinitions lines 93-110: the next file
LoadFluxFile ==
  /\ server.pc = "flux"
  /\ server.i <= Len(env.flux.v)
  /\ LET acc == LoadFlux([definitions |-> server.definitions,
                          fluxErrors |-> loader.fluxErrors],
                         server.i, env.flux.v[server.i])
     IN /\ loader' = [loader EXCEPT !.fluxErrors = acc.fluxErrors]
        /\ server' = [server EXCEPT !.definitions = acc.definitions, !.i = @ + 1]
  /\ UNCHANGED <<config, env, plugins, db, setups, client>>
  /\ UNCHANGED <<executorVars, requestVars, callVars>>

FluxLoaded(s) ==
  \/ s.pc = "fluxLoaded"
  \/ s.pc = "flux" /\ s.i > Len(env.flux.v)

\* registerEndpoint lines 97-106: flux.method.toLowerCase() names the router
\* method the endpoint is bound with
Route(definition) ==
  [method |-> CASE definition.v["method"].v = "GET" -> "get"
                [] definition.v["method"].v = "POST" -> "post"
                [] definition.v["method"].v = "PUT" -> "put"
                [] definition.v["method"].v = "DELETE" -> "delete"
                [] definition.v["method"].v = "PATCH" -> "patch"
                [] definition.v["method"].v = "OPTIONS" -> "options"
                [] definition.v["method"].v = "HEAD" -> "head",
   endpoint |-> definition.v["endpoint"].v,
   flux |-> definition]

\* start() lines 84-93: every definition is registered, the server listens
RegisterAndListen ==
  /\ FluxLoaded(server)
  /\ server' = [server EXCEPT !.pc = "listening",
                              !.routes = [j \in 1..Len(server.definitions) |->
                                            Route(server.definitions[j])],
                              !.listening = TRUE]
  /\ UNCHANGED <<config, env, plugins, db, loader, setups, client>>
  /\ UNCHANGED <<executorVars, requestVars, callVars>>

\* start.ts lines 16-19: start() has failed, the process exits
StartFailed ==
  /\ server.pc = "rejected"
  /\ server' = [server EXCEPT !.pc = "exited"]
  /\ UNCHANGED <<config, env, plugins, db, loader, setups, client>>
  /\ UNCHANGED <<executorVars, requestVars, callVars>>

\* the process is told to stop: no handler is registered for it and the
\* process ends
Shutdown ==
  /\ Alive
  /\ server.pc # "new"
  /\ server' = [server EXCEPT !.pc = "stopped", !.listening = FALSE]
  /\ UNCHANGED <<config, env, plugins, db, loader, setups, client>>
  /\ UNCHANGED <<executorVars, requestVars, callVars>>

\* a holder of the plugin instance calls getClient()
GetClient ==
  /\ Alive
  /\ client' = getClient(db)
  /\ UNCHANGED <<config, env, plugins, db, loader, server, setups>>
  /\ UNCHANGED <<executorVars, requestVars, callVars>>

ServerInit ==
  /\ config \in Configs
  /\ env \in Environments
  /\ plugins = NoPlugins
  /\ db = PostgresPlugin
  /\ loader = NewLoader
  /\ server = NewServer
  /\ setups = <<>>
  /\ client = NoOut
  /\ flux = [endpoint |-> "/test", method |-> "GET", flow |-> <<>>]
  /\ ctx = NewContext([flag |-> Bool(FALSE), xs |-> Arr(<<>>)])
  /\ headersSent = FALSE
  /\ resCalls = <<>>
  /\ tasks = <<>>
  /\ startQueue = <<>>
  /\ log = <<>>
  /\ heap = <<>>
  /\ ref = 0
  /\ parked = NoRequest
  /\ call = NoCall
  /\ returned = NoOut

ServerNext ==
  \/ InitConfig
  \/ InitPlugin
  \/ LoadActionsBegin
  \/ LoadActionFile
  \/ LoadFluxBegin
  \/ LoadFluxFile
  \/ RegisterAndListen
  \/ StartFailed
  \/ Shutdown
  \/ GetClient

ServerSpec == ServerInit /\ [][ServerNext]_vars

(***************************************************************************)
(* The server a request of Spec is served by: it has started on a          *)
(* configuration with the postgres database and listens.                   *)
(***************************************************************************)
StartedConfig ==
  [plugins |-> Entries(<<PluginEntry("database", "postgres", Str("postgres://db"))>>)]
StartedEnv == [DATABASE_URL |-> Undef, actions |-> Dir(<<>>), flux |-> Dir(<<>>)]
StartedPlugin == [PostgresPlugin EXCEPT !.pool = Pool(TRUE)]
StartedLoader == [actions |-> [k \in ActionPaths |-> "function"], fluxErrors |-> <<>>]
StartedServer == [NewServer EXCEPT !.pc = "listening", !.listening = TRUE]

(***************************************************************************)
(* The requests explored: every flow of at most MaxFlow nodes out of       *)
(* FlowNodes, on every input of Inputs.                                    *)
(***************************************************************************)
MaxFlow == 2
MaxItems == 2

Action(name, path) == ActionNode(name, path, Undef)
Return(body) == ReturnNode(Undef, Str(body))

FlowNodes ==
  { Action("r", "hello"),
    Return("${r}"),
    ReturnNode(Undef, Num(0)),
    ConditionNode("${input.flag}", <<Return("yes")>>, Arr(<<Action("n", "okAction")>>)),
    ForEachNode("${input.xs}", "item",
                <<ActionNode("process", "processItem", Obj([val |-> Str("${item}")]))>>),
    TryNode(<<ActionNode("bad", "flaky", Obj([id |-> Str("${input.flag}")])),
              Action("ok", "okAction")>>,
            <<Return("caught")>>, Str("e")),
    ParallelNode(<<<<Action("b1", "branch1")>>, <<Action("b2", "branch2")>>>>),
    Action("f", "fail"),
    ForEachNode("${input.xs}", "item",
                <<ConditionNode("${item}", <<ReturnNode(Num(201), Str("item ${item}"))>>, Undef),
                  Action("after", "okAction")>>),
    TryNode(<<ConditionNode("!${input.flag}", <<Return("not")>>, Undef),
              Action("late", "okAction")>>,
            <<Return("caught")>>, Undef),
    ParallelNode(<<<<Return("p1")>>, <<Action("b2", "branch2"), Return("p2")>>>>),
    ParallelNode(<<<<Action("f", "fail")>>,
                   <<Action("b2", "branch2"), Action("g", "badAction")>>>>),
    ActionNode("args", "okAction", Obj([id |-> Str("${input.flag}")])),
    Action("results", "okAction"),
    Action("res", "okAction"),
    Action("m", "missing/path"),
    TryNode(<<TryNode(<<Action("f", "fail")>>, <<Action("g", "badAction")>>, Str("e"))>>,
            <<ReturnNode(Num(400), Obj([error |-> Str("${e2.message}")]))>>, Str("e2")),
    TryNode(<<ParallelNode(<<<<Action("f", "fail")>>,
                             <<Action("b2", "branch2"), Return("p2")>>>>)>>,
            <<Action("c", "okAction")>>, Str("e")),
    TryNode(<<ForEachNode("${input.xs}", "item",
                          <<Action("bad", "flaky"), Return("${item}")>>),
              Action("f", "fail")>>,
            <<Return("caught ${item}")>>, Undef) }

RECURSIVE Flows(_)
Flows(n) ==
  IF n = 0 THEN {<<>>}
  ELSE Flows(n - 1) \cup {Append(s, e) : s \in {r \in Flows(n - 1) : Len(r) = n - 1},
                                          e \in FlowNodes}

Fluxes == {[endpoint |-> "/test", method |-> "GET", flow |-> s] : s \in Flows(MaxFlow)}

\* arrays of consecutive numbers from 0 or from 1, and a value that is no array
ItemArrays ==
  {Arr([j \in 1..n |-> Num(j - 1 + b)]) : n \in 0..MaxItems, b \in 0..1} \cup {Str("nope")}
Inputs == {[flag |-> Bool(b), xs |-> a] : b \in BOOLEAN, a \in ItemArrays}

Init ==
  /\ flux \in Fluxes
  /\ ctx \in {NewContext(inp) : inp \in Inputs}
  /\ headersSent = FALSE
  /\ resCalls = <<>>
  /\ tasks = <<Task(<<Frame("executeFlux", <<>>, "flow", 0, flux.flow, NoNode)>>, 0)>>
  /\ startQueue = <<>>
  /\ log = <<>>
  /\ config = StartedConfig
  /\ env = StartedEnv
  /\ plugins = Put(NoPlugins, StartedPlugin.name, StartedPlugin.name)
  /\ db = StartedPlugin
  /\ loader = StartedLoader
  /\ server = StartedServer
  /\ setups = <<[op |-> "setup", name |-> "db", key |-> "database", out |-> Returns(Undef)]>>
  /\ client = NoOut
  /\ heap = <<ctx>>
  /\ ref = 1
  /\ parked = NoRequest
  /\ call = NoCall
  /\ returned = NoOut

\* enough task identities for every parallel node of a flow
TaskIds == 1..(1 + 2 * MaxFlow)

Next ==
  \E t \in TaskIds :
    \/ ExecuteAction(t)
    \/ ActionReturns(t)
    \/ ActionThrows(t)
    \/ ExecuteCondition(t)
    \/ ConditionReturns(t)
    \/ ExecuteForEach(t)
    \/ ForEachNext(t)
    \/ ForEachReturns(t)
    \/ ExecuteParallel(t)
    \/ BranchReturns(t)
    \/ ParallelResolves(t)
    \/ ParallelRejects(t)
    \/ ExecuteTry(t)
    \/ TryReturns(t)
    \/ ExecuteReturn(t)
    \/ FluxTail(t)
    \/ FluxCatch(t)

Spec == Init /\ [][Next]_vars

(***************************************************************************)
(* The route handler of registerEndpoint (src/src/core/server.ts), called  *)
(* for a request while the flow of another request is suspended.           *)
(***************************************************************************)
MaxRequests == 2

\* {...a, ...b}: the properties of b over those of a; a b that is undefined
\* adds nothing
Spread(a, b) ==
  IF b.t # "object" THEN a
  ELSE Obj([k \in DOMAIN a.v \cup DOMAIN b.v |-> IF k \in DOMAIN b.v THEN b.v[k] ELSE a.v[k]])

\* a merge in which the body has the last word
MergeInput_bodyLast(req) ==
  Spread(Spread(Spread(EmptyObj, req.params), req.query), req.body)

\* line 110: { ...req.body, ...req.query, ...req.params }
MergeInput(req) ==
  Spread(Spread(Spread(EmptyObj, req.body), req.query), req.params)

\* lines 107-114: the context of a request
RouteContext(req) ==
  [NewContext(<<>>) EXCEPT !["req"] = req, !["input"] = MergeInput(req)]

\* a handler that keeps one context object for all requests
NewAddress_shared(h) == 1

\* the object literal of lines 107-114 is a new object at every call
NewAddress(h) == Len(h) + 1

\* the object at address a holds c
Store(h, a, c) ==
  IF a \in DOMAIN h THEN [h EXCEPT ![a] = c]
  ELSE IF a = Len(h) + 1 THEN Append(h, c) ELSE h

Request(body, query, params) ==
  [t |-> "request", body |-> body, query |-> query, params |-> params]

\* the requests explored: a body or none, a query string or none, path
\* parameters or none, with keys in common
Requests ==
  {Request(b, q, p) :
     b \in {Undef, Obj([flag |-> Bool(TRUE), xs |-> Arr(<<Num(1), Num(2)>>)])},
     q \in {EmptyObj, Obj([flag |-> Str("q"), id |-> Str("3")])},
     p \in {EmptyObj, Obj([flag |-> Str("p"), id |-> Str("7")])}}

\* the flux definitions the routes of the server are registered for
RouteFluxes ==
  {[endpoint |-> "/items/:id", method |-> "POST",
    flow |-> <<ForEachNode("${input.xs}", "item",
                           <<ActionNode("process", "processItem",
                                        Obj([val |-> Str("${item}")]))>>)>>],
   [endpoint |-> "/try/:id", method |-> "POST",
    flow |-> <<TryNode(<<Action("bad", "flaky"), Action("ok", "okAction")>>,
                       <<Return("caught ${input.flag}")>>, Str("e"))>>],
   [endpoint |-> "/fail/:id", method |-> "POST", flow |-> <<Action("f", "fail")>>]}

\* the running request as it is when it is suspended
Suspended ==
  [t |-> "request", flux |-> flux, ctx |-> ctx, ref |-> ref, headersSent |-> headersSent,
   resCalls |-> resCalls, tasks |-> tasks, log |-> log]

\* lines 106-116: a request arrives on a route: the handler builds its
\* context and calls executeFlux, which runs up to its first await
Accept ==
  /\ startQueue = <<>>
  /\ parked = NoRequest
  /\ Len(heap) < MaxRequests
  /\ \E f \in RouteFluxes, r \in Requests :
       LET left == IF tasks = <<>> THEN heap ELSE Store(heap, ref, ctx)
           a == NewAddress(left)
       IN /\ parked' = IF tasks = <<>> THEN NoRequest ELSE Suspended
          /\ heap' = Store(left, a, RouteContext(r))
          /\ ref' = a
          /\ ctx' = RouteContext(r)
          /\ flux' = f
          /\ headersSent' = FALSE
          /\ resCalls' = <<>>
          /\ tasks' = <<Task(<<Frame("executeFlux", <<>>, "flow", 0, f.flow, NoNode)>>, 0)>>
          /\ startQueue' = <<>>
          /\ log' = <<>>
  /\ UNCHANGED <<serverVars, callVars>>

\* the running request is at an await and the await of the suspended one
\* has settled: the suspended request goes on, on the object at its address
Resume ==
  /\ startQueue = <<>>
  /\ parked # NoRequest
  /\ \E t \in DOMAIN parked.tasks : parked.tasks[t].status = "running"
  /\ LET left == Store(heap, ref, ctx) IN
     /\ heap' = left
     /\ parked' = Suspended
     /\ ref' = parked.ref
     /\ ctx' = left[parked.ref]
     /\ flux' = parked.flux
     /\ headersSent' = parked.headersSent
     /\ resCalls' = parked.resCalls
     /\ tasks' = parked.tasks
     /\ startQueue' = <<>>
     /\ log' = parked.log
  /\ UNCHANGED <<serverVars, callVars>>

\* the server listens and no request has arrived
RequestsInit ==
  /\ flux = [endpoint |-> "/test", method |-> "GET", flow |-> <<>>]
  /\ ctx = NewContext(<<>>)
  /\ headersSent = FALSE
  /\ resCalls = <<>>
  /\ tasks = <<>>
  /\ startQueue = <<>>
  /\ log = <<>>
  /\ config = StartedConfig
  /\ env = StartedEnv
  /\ plugins = Put(NoPlugins, StartedPlugin.name, StartedPlugin.name)
  /\ db = StartedPlugin
  /\ loader = StartedLoader
  /\ server = StartedServer
  /\ setups = <<[op |-> "setup", name |-> "db", key |-> "database", out |-> Returns(Undef)]>>
  /\ client = NoOut
  /\ heap = <<>>
  /\ ref = 0
  /\ parked = NoRequest
  /\ call = NoCall
  /\ returned = NoOut

RequestsNext ==
  \/ Accept
  \/ Resume
  \/ \E t \in TaskIds :
       \/ ExecuteAction(t)
       \/ ActionReturns(t)
       \/ ActionThrows(t)
       \/ ExecuteForEach(t)
       \/ ForEachNext(t)
       \/ ForEachReturns(t)
       \/ ExecuteTry(t)
       \/ TryReturns(t)
       \/ ExecuteReturn(t)
       \/ FluxTail(t)
       \/ FluxCatch(t)

RequestsSpec == RequestsInit /\ [][RequestsNext]_vars

(***************************************************************************)
(* Calls of the interpolator and of the validator on their own: a call is  *)
(* drawn with its arguments, and the function returns.                     *)
(***************************************************************************)
MaxParts == 3

\* contexts of the calls
CallContexts ==
  { [n |-> Num(0), flag |-> Bool(TRUE), nothing |-> Null,
     input |-> Obj([name |-> Str("admin"), age |-> Num(25)]),
     xs |-> Arr(<<Num(1), Num(2)>>)],
    [n |-> Num(25), flag |-> Bool(FALSE), nothing |-> Null,
     input |-> Obj([name |-> Str(""), age |-> Num(0)]),
     xs |-> Arr(<<>>)] }

\* a path, segment by segment, as it is written: a.b.c
RECURSIVE Dotted(_)
Dotted(segments) ==
  IF Len(segments) = 1 THEN segments[1]
  ELSE segments[1] \o "." \o Dotted(Tail(segments))

\* condition expressions: placeholders, literals, !, and the binary operators
Var(path) == [op |-> "var", path |-> path]
Lit(v) == [op |-> "lit", v |-> v]
Not(a) == [op |-> "!", a |-> a]
Bin(op, a, b) == [op |-> op, a |-> a, b |-> b]

Comparisons == {"===", "!==", "<", ">", "<=", ">="}
Logical == {"&&", "||"}

\* how tightly the operator of an expression binds
Binding(e) ==
  CASE e.op = "||" -> 1
    [] e.op = "&&" -> 2
    [] e.op \in {"===", "!=="} -> 3
    [] e.op \in {"<", ">", "<=", ">="} -> 4
    [] e.op = "!" -> 5
    [] OTHER -> 6

\* the text of a condition expression, with the parentheses it needs
RECURSIVE ConditionText(_)
Operand(e, level) ==
  IF Binding(e) < level THEN "(" \o ConditionText(e) \o ")" ELSE ConditionText(e)
ConditionText(e) ==
  CASE e.op = "var" -> "${" \o Dotted(e.path) \o "}"
    [] e.op = "lit" ->
         (CASE e.v.t = "number" -> NatToStr(e.v.v)
            [] e.v.t = "string" -> "'" \o e.v.v \o "'"
            [] e.v.t = "boolean" -> (IF e.v.v THEN "true" ELSE "false"))
    [] e.op = "!" -> "!" \o Operand(e.a, 5)
    [] OTHER -> Operand(e.a, Binding(e)) \o " " \o e.op \o " " \o Operand(e.b, Binding(e) + 1)

Atoms ==
  {Var(p) : p \in {<<"n">>, <<"flag">>, <<"input", "name">>, <<"missing", "x">>}}
    \cup {Lit(Num(0)), Lit(Num(18)), Lit(Str("admin")), Lit(Str("0")), Lit(Bool(TRUE))}

Simple ==
  Atoms \cup {Not(a) : a \in Atoms}
        \cup {Bin(op, a, b) : op \in Comparisons \cup Logical, a \in Atoms, b \in Atoms}

Operands ==
  {Var(<<"flag">>), Not(Var(<<"n">>)),
   Bin("===", Var(<<"n">>), Lit(Num(0))),
   Bin("<", Var(<<"n">>), Lit(Num(18))),
   Bin("||", Var(<<"flag">>), Var(<<"input", "name">>)),
   Bin("&&", Var(<<"flag">>), Var(<<"n">>))}

Compound ==
  {Not(a) : a \in Operands}
    \cup {Bin(op, a, b) : op \in Comparisons \cup Logical, a \in Operands, b \in Operands}

Conditions == Simple \cup Compound

\* templates: a sequence of texts and placeholders
Text(s) == [op |-> "text", s |-> s]
Parts == {Text("x="), Text(" and ")}
           \cup {Var(p) : p \in {<<"n">>, <<"flag">>, <<"nothing">>, <<"input", "name">>,
                                  <<"xs">>, <<"xs", "1">>, <<"missing", "x">>,
                                  <<"input", "age", "x">>}}
Templates == SeqsUpTo(Parts, MaxParts) \ {<<>>}

RECURSIVE TemplateText(_)
TemplateText(parts) ==
  IF parts = <<>> THEN ""
  ELSE (IF Head(parts).op = "text" THEN Head(parts).s
        ELSE "${" \o Dotted(Head(parts).path) \o "}")
       \o TemplateText(Tail(parts))

ConditionCall(expression, context) ==
  [fn |-> "evaluateCondition", expression |-> expression, context |-> context]
ResolveCall(expression, context) ==
  [fn |-> "resolve", expression |-> expression, context |-> context]

\* interpolator.evaluateCondition(call.expression, call.context)
EvaluateCondition ==
  /\ call.fn = "evaluateCondition"
  /\ returned = NoOut
  /\ returned' = Returns(Bool(evaluateCondition(call.expression, call.context)))
  /\ UNCHANGED <<executorVars, serverVars, requestVars, call>>

\* interpolator.resolve(call.expression, call.context)
Resolve ==
  /\ call.fn = "resolve"
  /\ returned = NoOut
  /\ returned' = Returns(resolve(Str(call.expression), call.context))
  /\ UNCHANGED <<executorVars, serverVars, requestVars, call>>

\* the nodes of the definitions handed to the validator: nodes of every
\* type, with and without their fields, and values that are no node
DefinitionNodes ==
  { JsonReturn(Str("ok")),
    Obj([type |-> Str("return"), body |-> Num(0), status |-> Num(201)]),
    Obj([type |-> Str("return")]),
    Obj([type |-> Str("return"), body |-> Null, status |-> Str("200")]),
    Obj([type |-> Str("return"), body |-> Str("ok"), then |-> Num(1), extra |-> Bool(TRUE)]),
    Obj([type |-> Str("action"), name |-> Str("a"), path |-> Str("p")]),
    Obj([type |-> Str("action"), name |-> Str("a")]),
    Obj([type |-> Str("action"), name |-> Num(1), path |-> Str("p")]),
    Obj([type |-> Str("action"), name |-> Str("a"), path |-> Str("p"), args |-> Arr(<<>>)]),
    Obj([type |-> Str("action"), name |-> Str("a"), path |-> Str("p"),
         args |-> Obj([id |-> Num(1)]), status |-> Str("x")]),
    Obj([type |-> Str("condition"), if |-> Str("${input.flag}"),
         then |-> Arr(<<JsonReturn(Str("yes"))>>)]),
    Obj([type |-> Str("condition"), if |-> Str("${input.flag}"),
         then |-> Arr(<<Obj([type |-> Str("return")])>>)]),
    Obj([type |-> Str("condition"), if |-> Str("${input.flag}"),
         then |-> Arr(<<>>), else |-> Arr(<<Obj([type |-> Str("nothing")])>>)]),
    Obj([type |-> Str("condition"), then |-> Arr(<<>>)]),
    Obj([type |-> Str("condition"), if |-> Str("${input.flag}"), then |-> Str("x")]),
    Obj([type |-> Str("condition"), if |-> Str("${input.flag}"),
         then |-> Arr(<<>>), else |-> Null]),
    Obj([type |-> Str("forEach"), items |-> Str("${input.xs}"), as |-> Str("item"),
         do |-> Arr(<<JsonReturn(Str("ok"))>>)]),
    Obj([type |-> Str("forEach"), items |-> Str("${input.xs}"),
         do |-> Arr(<<JsonReturn(Str("ok"))>>)]),
    Obj([type |-> Str("forEach"), items |-> Arr(<<Num(1)>>), as |-> Str("item"),
         do |-> Arr(<<>>)]),
    Obj([type |-> Str("forEach"), items |-> Str("${input.xs}"), as |-> Str("item"),
         do |-> Arr(<<Obj([type |-> Str("action"), name |-> Str("a")])>>)]),
    Obj([type |-> Str("parallel"),
         branches |-> Arr(<<Arr(<<JsonReturn(Str("ok"))>>), Arr(<<>>)>>)]),
    Obj([type |-> Str("parallel"),
         branches |-> Arr(<<Arr(<<JsonReturn(Str("ok"))>>),
                            Arr(<<Obj([type |-> Str("return")])>>)>>)]),
    Obj([type |-> Str("parallel"), branches |-> Arr(<<JsonReturn(Str("ok"))>>)]),
    Obj([type |-> Str("parallel")]),
    Obj([type |-> Str("try"), try |-> Arr(<<JsonReturn(Str("ok"))>>),
         catch |-> Arr(<<>>), errorVar |-> Str("e")]),
    Obj([type |-> Str("try"), try |-> Arr(<<JsonReturn(Str("ok"))>>)]),
    Obj([type |-> Str("try"), try |-> Arr(<<>>), catch |-> Arr(<<>>), errorVar |-> Num(1)]),
    Obj([type |-> Str("try"), try |-> Arr(<<>>),
         catch |-> Arr(<<Obj([type |-> Str("try"), try |-> Arr(<<>>)])>>)]),
    Obj([type |-> Str("unknown_type"), body |-> Str("fail")]),
    Obj([type |-> Num(1), body |-> Str("x")]),
    Obj([body |-> Str("x")]),
    Str("return"),
    Null }

\* the keys of a definition beside endpoint, method and flow
MoreKeys ==
  {<<>>, [description |-> Str("a flux")], [description |-> Num(5)], [version |-> Num(2)]}

\* the definition with the three properties, each left out when undefined
Definition(endpoint, method, flow, more) ==
  LET with(f, key, value) == IF value.t = "undefined" THEN f ELSE Put(f, key, value)
  IN Obj(with(with(with(more, "endpoint", endpoint), "method", method), "flow", flow))

Definitions ==
  {Null, Str("flux"), Arr(<<>>)}
    \cup {Definition(e, m, f, x) :
            e \in {Undef, Str("/a"), Num(1)},
            m \in {Undef, Str("GET"), Str("FETCH"), Num(1)},
            f \in {Undef, EmptyObj, Arr(<<>>), Arr(<<JsonReturn(Str("ok"))>>),
                   Arr(<<Obj([type |-> Str("return")])>>)},
            x \in MoreKeys}
    \cup {Definition(Str("/a"), Str(m), Arr(<<JsonReturn(Str("ok"))>>), <<>>) : m \in Methods}
    \cup {Definition(Str("/a"), Str("POST"), Arr(f), <<>>) : f \in SeqsUpTo(DefinitionNodes, MaxFlow)}

ValidateCall(definition) == [fn |-> "validate", definition |-> definition]

\* validator.validate(call.definition)
Validate ==
  /\ call.fn = "validate"
  /\ returned = NoOut
  /\ returned' = Returns(validate(call.definition))
  /\ UNCHANGED <<executorVars, serverVars, requestVars, call>>

Calls ==
  {ConditionCall(ConditionText(e), c) : e \in Conditions, c \in CallContexts}
    \cup {ResolveCall(TemplateText(parts), c) : parts \in Templates, c \in CallContexts}
    \cup {ValidateCall(d) : d \in Definitions}

CallsInit ==
  /\ call \in Calls
  /\ returned = NoOut
  /\ flux = [endpoint |-> "/test", method |-> "GET", flow |-> <<>>]
  /\ ctx = NewContext(<<>>)
  /\ headersSent = FALSE
  /\ resCalls = <<>>
  /\ tasks = <<>>
  /\ startQueue = <<>>
  /\ log = <<>>
  /\ config = [plugins |-> Undef]
  /\ env = [DATABASE_URL |-> Undef, actions |-> Undef, flux |-> Undef]
  /\ plugins = NoPlugins
  /\ db = PostgresPlugin
  /\ loader = NewLoader
  /\ server = NewServer
  /\ setups = <<>>
  /\ client = NoOut
  /\ heap = <<>>
  /\ ref = 0
  /\ parked = NoRequest

CallsNext == EvaluateCondition \/ Resolve \/ Validate

CallsSpec == CallsInit /\ [][CallsNext]_vars

(***************************************************************************)
(* FluxServer.reload (src/src/core/server.ts lines 123-133) on a server    *)
(* that listens, while requests look their handlers up.                    *)
(***************************************************************************)
\* the table loadActions builds from the files from the i-th on
RECURSIVE LoadedFrom(_, _, _)
LoadedFrom(actions, files, i) ==
  IF i > Len(files) THEN actions
  ELSE LoadedFrom(LoadAction(actions, i, files[i]), files, i + 1)

\* the table of a server started on environment e
LoadedActions(e) == IF e.actions = Undef THEN NoActions ELSE LoadedFrom(NoActions, e.actions.v, 1)

\* loadActions line 37: this.actions.clear()
ClearActions(actions) == NoActions

\* reload() lines 127, loadActions lines 36-47: the table is cleared, the
\* directory is looked up
Reload ==
  /\ server.pc = "listening"
  /\ loader' = [loader EXCEPT !.actions = ClearActions(@)]
  /\ server' = IF env.actions = Undef
               THEN [server EXCEPT !.pc = "reloadedActions"]
               ELSE [server EXCEPT !.pc = "reloadActions", !.i = 1]
  /\ UNCHANGED <<config, env, plugins, db, setups, client>>
  /\ UNCHANGED <<executorVars, requestVars, callVars>>

\* loadActions lines 49-74 during a reload: the next file
ReloadActionFile ==
  /\ server.pc = "reloadActions"
  /\ server.i <= Len(env.actions.v)
  /\ loader' = [loader EXCEPT !.actions = LoadAction(@, server.i, env.actions.v[server.i])]
  /\ server' = [server EXCEPT !.i = @ + 1]
  /\ UNCHANGED <<config, env, plugins, db, setups, client>>
  /\ UNCHANGED <<executorVars, requestVars, callVars>>

\* reload() lines 128-132: the definitions are loaded again and dropped, the
\* routes stay as they are
ReloadFlux ==
  /\ \/ server.pc = "reloadedActions"
     \/ server.pc = "reloadActions" /\ server.i > Len(env.actions.v)
  /\ LET files == IF env.flux = Undef THEN <<>> ELSE env.flux.v
         Load[i \in 0..Len(files)] ==
           IF i = 0 THEN [definitions |-> <<>>, fluxErrors |-> <<>>]
           ELSE LoadFlux(Load[i - 1], i, files[i])
     IN loader' = [loader EXCEPT !.fluxErrors = Load[Len(files)].fluxErrors]
  /\ server' = [server EXCEPT !.pc = "listening", !.i = 0]
  /\ UNCHANGED <<config, env, plugins, db, setups, client>>
  /\ UNCHANGED <<executorVars, requestVars, callVars>>

LookupCall(path) == [fn |-> "getAction", path |-> path]

\* executeAction line 75 of a request: this.loader.getAction(node.path)
GetAction ==
  /\ server.listening
  /\ \E i \in 1..MaxFiles :
       /\ call' = LookupCall(ActionKey(i))
       /\ returned' = Returns(Bool(getAction(ActionKey(i))))
  /\ UNCHANGED <<executorVars, serverVars, requestVars>>

\* the server has started on some environment and listens
ReloadInit ==
  /\ env \in Environments
  /\ config = StartedConfig
  /\ plugins = Put(NoPlugins, StartedPlugin.name, StartedPlugin.name)
  /\ db = StartedPlugin
  /\ loader = [actions |-> LoadedActions(env), fluxErrors |-> <<>>]
  /\ server = StartedServer
  /\ setups = <<[op |-> "setup", name |-> "db", key |-> "database", out |-> Returns(Undef)]>>
  /\ client = NoOut
  /\ flux = [endpoint |-> "/test", method |-> "GET", flow |-> <<>>]
  /\ ctx = NewContext(<<>>)
  /\ headersSent = FALSE
  /\ resCalls = <<>>
  /\ tasks = <<>>
  /\ startQueue = <<>>
  /\ log = <<>>
  /\ heap = <<>>
  /\ ref = 0
  /\ parked = NoRequest
  /\ call = NoCall
  /\ returned = NoOut

ReloadNext == Reload \/ ReloadActionFile \/ ReloadFlux \/ GetAction

ReloadSpec == ReloadInit /\ [][ReloadNext]_vars

(***************************************************************************)
(* Flows whose parallel branches run actions on the context they share,    *)
(* and whose loops run a handler that pushes on the array they iterate.    *)
(***************************************************************************)
SharedNodes ==
  { ParallelNode(<<<<ActionNode("x", "branch1", Obj([id |-> Str("${input.flag}")]))>>,
                   <<Action("x", "branch2")>>>>),
    ParallelNode(<<<<Action("args", "branch1")>>, <<Action("args", "branch2")>>>>),
    ParallelNode(<<<<Action("f", "fail")>>, <<Action("x", "branch2")>>>>),
    ConditionNode("${x}", <<Return("${results.x}")>>, Arr(<<Action("x", "okAction")>>)),
    TryNode(<<ForEachNode("${input.xs}", "item", <<Action("x", "processItem")>>)>>,
            <<Return("caught")>>, Str("e")),
    ForEachNode("${input.xs}", "item", <<Action("more", "grow")>>) }

RECURSIVE SharedFlows(_)
SharedFlows(n) ==
  IF n = 0 THEN {<<>>}
  ELSE SharedFlows(n - 1) \cup
       {Append(s, e) : s \in {r \in SharedFlows(n - 1) : Len(r) = n - 1}, e \in SharedNodes}

\* a flow whose second branch answers after its parallel node has failed,
\* while the walk is at the nodes that follow the try node
LateAnswer ==
  <<TryNode(<<ParallelNode(<<<<Action("f", "fail")>>,
                             <<Action("x", "branch2"), Return("late")>>>>)>>,
            <<>>, Undef),
    ForEachNode("${input.xs}", "item", <<Action("x", "processItem")>>),
    Action("x", "okAction")>>

SharedFluxes ==
  {[endpoint |-> "/test", method |-> "GET", flow |-> s] :
     s \in SharedFlows(MaxFlow) \cup {LateAnswer}}

SharedInit ==
  /\ flux \in SharedFluxes
  /\ ctx \in {NewContext(inp) : inp \in Inputs}
  /\ headersSent = FALSE
  /\ resCalls = <<>>
  /\ tasks = <<Task(<<Frame("executeFlux", <<>>, "flow", 0, flux.flow, NoNode)>>, 0)>>
  /\ startQueue = <<>>
  /\ log = <<>>
  /\ config = StartedConfig
  /\ env = StartedEnv
  /\ plugins = Put(NoPlugins, StartedPlugin.name, StartedPlugin.name)
  /\ db = StartedPlugin
  /\ loader = StartedLoader
  /\ server = StartedServer
  /\ setups = <<[op |-> "setup", name |-> "db", key |-> "database", out |-> Returns(Undef)]>>
  /\ client = NoOut
  /\ heap = <<ctx>>
  /\ ref = 1
  /\ parked = NoRequest
  /\ call = NoCall
  /\ returned = NoOut

SharedSpec == SharedInit /\ [][Next]_vars

(***************************************************************************)
(* Flows with a loop whose body pushes on the array the loop iterates,     *)
(* under the scheduling of the event loop.                                 *)
(***************************************************************************)
LoopNodes ==
  { ForEachNode("${input.xs}", "item", <<Action("more", "grow")>>),
    TryNode(<<ParallelNode(<<<<Action("f", "fail")>>, <<Action("x", "branch2")>>>>)>>,
            <<ConditionNode("${e}", <<Return("caught")>>, Undef)>>, Str("e")),
    TryNode(<<ParallelNode(<<<<ConditionNode("${input.flag}", <<Action("x", "okAction")>>,
                                             Undef)>>>>)>>,
            <<>>, Undef),
    Action("f", "fail") }

RECURSIVE LoopFlows(_)
LoopFlows(n) ==
  IF n = 0 THEN {<<>>}
  ELSE LoopFlows(n - 1) \cup
       {Append(s, e) : s \in {r \in LoopFlows(n - 1) : Len(r) = n - 1}, e \in LoopNodes}

LoopFluxes ==
  {[endpoint |-> "/test", method |-> "GET", flow |-> s] : s \in LoopFlows(MaxFlow)}

\* requests with an empty array and with an array of one element
LoopInputs == {[flag |-> Bool(TRUE), xs |-> Arr([j \in 1..n |-> Num(0)])] : n \in 0..1}

LoopInit ==
  /\ flux \in LoopFluxes
  /\ ctx \in {NewContext(inp) : inp \in LoopInputs}
  /\ headersSent = FALSE
  /\ resCalls = <<>>
  /\ tasks = <<Task(<<Frame("executeFlux", <<>>, "flow", 0, flux.flow, NoNode)>>, 0)>>
  /\ startQueue = <<>>
  /\ log = <<>>
  /\ config = StartedConfig
  /\ env = StartedEnv
  /\ plugins = Put(NoPlugins, StartedPlugin.name, StartedPlugin.name)
  /\ db = StartedPlugin
  /\ loader = StartedLoader
  /\ server = StartedServer
  /\ setups = <<[op |-> "setup", name |-> "db", key |-> "database", out |-> Returns(Undef)]>>
  /\ client = NoOut
  /\ heap = <<ctx>>
  /\ ref = 1
  /\ parked = NoRequest
  /\ call = NoCall
  /\ returned = NoOut

\* the event loop runs every continuation that is ready: a flow that can
\* take a step takes one
FairSpec == LoopInit /\ [][Next]_vars /\ WF_vars(Next)

(***************************************************************************)
(* Properties.  They are stated on the steps of the executor and on log,   *)
(* the history of what the flow did.                                       *)
(***************************************************************************)
\* executeFlux has completed: its promise is settled
Completed == tasks[1].status # "running"

\* task t is inside the function fn
At(t, fn) ==
  /\ t \in DOMAIN tasks
  /\ tasks[t].status = "running"
  /\ Top(tasks[t].stack).fn = fn

\* the step is one of task t
Steps(t) == tasks'[t] # tasks[t]

IsPrefix(p, q) == Len(p) <= Len(q) /\ SubSeq(q, 1, Len(p)) = p

\* the node at q follows the node at r at level d: in the same sequence as the
\* d-th ancestor of r and later in it, or in a later iteration of that forEach
FollowsAt(r, q, d) ==
  /\ d <= Len(r)
  /\ d <= Len(q)
  /\ SubSeq(q, 1, d - 1) = SubSeq(r, 1, d - 1)
  /\ q[d].b = r[d].b
  /\ \/ q[d].k = r[d].k /\ q[d].i > r[d].i
     \/ q[d].b = "do" /\ q[d].k > r[d].k

\* C1: the response is written at most once per request.
C1_AtMostOneResponse == Len(resCalls) <= 1

\* C2: when executeFlux has completed, exactly one response has been written.
C2_ExactlyOneResponse == Completed => Len(resCalls) = 1

\* C3: once a Return node has executed, no node that follows it in an
\* enclosing sequence starts, and no later iteration of an enclosing forEach.
C3_NothingAfterReturn ==
  \A j \in 1..Len(log) : \A m \in (j + 1)..Len(log) :
    (log[j].e = "return" /\ log[m].e = "begin")
    => \A d \in 1..Len(log[j].p) : ~FollowsAt(log[j].p, log[m].p, d)

\* C4: the top-level handler of executeFlux writes 500 {error:'Internal
\* server error'} when no response has been written yet, and nothing otherwise.
C4_TopLevelHandler ==
  [][(At(1, "executeFlux") /\ Top(tasks[1].stack).blk = "catch" /\ Steps(1))
     => resCalls' = (IF headersSent THEN resCalls
                     ELSE Append(resCalls, Write(500, ErrorBody, "json")))]_vars

\* C5: when the walk of flux.flow ends without a failure, executeFlux writes
\* 200 {success:true} if no response has been written yet, and nothing otherwise.
C5_ImplicitTail ==
  [][(At(1, "executeFlux") /\ Top(tasks[1].stack).blk = "flow"
      /\ Top(tasks[1].stack).i > Len(flux.flow) /\ Steps(1))
     => resCalls' = (IF headersSent THEN resCalls
                     ELSE Append(resCalls, Write(200, SuccessBody, "send")))]_vars

\* C6: right after an action whose handler returned, ctx.results[name] and
\* ctx[name] both hold the handler's result and ctx.args is absent.
C6_ResultStored ==
  [][\A t \in TaskIds :
       (At(t, "executeAction") /\ Top(tasks[t].stack).out.kind = "return" /\ Steps(t))
       => LET f == Top(tasks[t].stack) IN
          /\ GetProp(Lookup(ctx', "results"), f.node.name) = f.out.v
          /\ Lookup(ctx', f.node.name) = f.out.v
          /\ ~Has(ctx', "args")]_vars

\* C7: a condition node walks then exactly when evaluateCondition(node.if, ctx)
\* is true, and otherwise walks else when there is one.
C7_WalksByEvaluateCondition ==
  [][\A t \in TaskIds :
       (AtNode(t, "condition") /\ Steps(t))
       => LET f == Top(tasks[t].stack)
              node == CurNode(f)
              walked == IF Len(tasks'[t].stack) = Len(tasks[t].stack) + 1
                        THEN Top(tasks'[t].stack).blk ELSE "none"
          IN walked = (IF evaluateCondition(node.if, ctx) THEN "then"
                       ELSE IF node.else.t # "undefined" THEN "else" ELSE "none")]_vars

\* the nodes of block b of a node; k is the branch for a parallel node
Block(node, b, k) ==
  CASE b = "then" -> node.then
    [] b = "else" -> node.else.v
    [] b = "do" -> node.do
    [] b = "branches" -> node.branches[k]
    [] b = "try" -> node.try
    [] b = "catch" -> node.catch

\* the node of the flux at path p
RECURSIVE NodeIn(_, _, _)
NodeIn(nodes, p, d) ==
  IF d = Len(p) THEN nodes[p[d].i]
  ELSE NodeIn(Block(nodes[p[d].i], p[d + 1].b, p[d + 1].k), p, d + 1)
NodeAt(p) == NodeIn(flux.flow, p, 1)

Last(p) == p[Len(p)]
\* the path of the node before the one at p in its sequence
Prev(p) == [p EXCEPT ![Len(p)].i = @ - 1]
MaxOf(S) == CHOOSE x \in S : \A y \in S : y <= x

\* the resolved items of the forEach at p, from its begin event
ItemsOf(p) == log[CHOOSE b \in 1..Len(log) : log[b].e = "begin" /\ log[b].p = p].v

InTryOf(p, q) == IsPrefix(p, q) /\ Len(q) > Len(p) /\ q[Len(p) + 1].b = "try"

\* what the history shows of the try nodes: a catch block is entered only by
\* a failure of the try block, nothing more of the try block is started by
\* the task that caught, and the catch nodes are walked from the first
C9_History ==
  /\ \A j \in 1..Len(log) :
       log[j].e = "catch"
       => LET p == log[j].p
              t == log[j].t
              first == Append(p, [b |-> "catch", k |-> 0, i |-> 1])
          IN /\ j > 1
             /\ log[j - 1].e \in {"throw", "rethrow"}
             /\ log[j - 1].t = t
             /\ log[j - 1].v = log[j].v
             /\ InTryOf(p, log[j - 1].p)
             /\ \A m \in (j + 1)..Len(log) :
                  (log[m].t = t /\ log[m].e \in {"begin", "iter"}) => ~InTryOf(p, log[m].p)
             /\ NodeAt(p).catch # <<>>
                => \/ \E m \in (j + 1)..Len(log) : log[m].e = "begin" /\ log[m].p = first
                   \/ /\ At(t, "executeTry")
                      /\ NodePath(Top(tasks[t].stack)) = first
  /\ \A m \in 1..Len(log) :
       log[m].e = "begin"
       => \A d \in 1..Len(log[m].p) :
            log[m].p[d].b = "catch"
            => /\ \E j \in 1..(m - 1) :
                    log[j].e = "catch" /\ log[j].p = SubSeq(log[m].p, 1, d - 1)
               /\ (d = Len(log[m].p) /\ log[m].p[d].i > 1)
                  => \E j \in 1..(m - 1) : log[j].e = "done" /\ log[j].p = Prev(log[m].p)

\* C9: a failure of a node of a try block ends the try block, binds the error
\* at ctx[errorVar] when errorVar is given, and starts the walk of the catch
\* nodes in order; without a failure of the try block no catch node runs.
C9_TryCatch ==
  [][/\ C9_History'
     /\ \A j \in (Len(log) + 1)..Len(log') :
          (log'[j].e = "catch" /\ Truthy(NodeAt(log'[j].p).errorVar))
          => Lookup(ctx', NodeAt(log'[j].p).errorVar.v) = log'[j].v]_vars

\* a handler failed in a try block, the error is bound at ctx.e and the
\* first catch node has started
C9_Witness ==
  \E j \in 2..Len(log) : \E m \in 1..Len(log) :
    /\ j < m
    /\ log[j].e = "catch"
    /\ log[j - 1].e = "throw" /\ log[j - 1].n = 1
    /\ NodeAt(log[j].p).errorVar = Str("e")
    /\ log[m].e = "begin"
    /\ log[m].p = Append(log[j].p, [b |-> "catch", k |-> 0, i |-> 1])
    /\ Lookup(ctx, "e") = log[j].v

\* the level of the innermost parallel branch around the node at q, 0 if none
BranchLevel(q) ==
  LET B == {d \in 1..Len(q) : q[d].b = "branches"} IN IF B = {} THEN 0 ELSE MaxOf(B)

\* the level of the innermost try block around the node at q inside its
\* branch, 0 if none: the try node at the path above that level is the
\* nearest enclosing try node whose try block contains the node
CatchLevel(q) ==
  LET T == {d \in (BranchLevel(q) + 1)..Len(q) : q[d].b = "try"} IN
  IF T = {} THEN 0 ELSE MaxOf(T)

\* the failure raised at event j of the history went where it had to: to
\* the nearest enclosing try, else to the top-level handler, else, out of a
\* parallel branch, to the parallel node, which raises it again unless, when
\* discard is allowed, another branch failed before; and the task it was
\* raised in starts nothing more of the sequences it unwound
Unwinds(j, discard) ==
  LET q == log[j].p
      t == log[j].t
      err == log[j].v
      B == BranchLevel(q)
      d == CatchLevel(q)
      lo == IF d > 0 THEN d ELSE IF B > 0 THEN B ELSE 1
      par == tasks[t].parent
  IN /\ IF d > 0
        THEN j < Len(log) /\ log[j + 1] = Event("catch", SubSeq(q, 1, d - 1), t, 0, err)
        ELSE IF B = 0
        THEN j < Len(log) /\ log[j + 1] = Event("topcatch", <<>>, t, 0, err)
        ELSE \/ discard /\ j < Len(log) /\ log[j + 1] = Event("drop", <<>>, t, 0, err)
             \/ \E m \in (j + 1)..Len(log) :
                  log[m].e = "rethrow" /\ log[m].p = SubSeq(q, 1, B - 1) /\ log[m].v = err
             \/ /\ At(par, "executeParallel")
                /\ NodePath(Top(Pop(tasks[par].stack))) = SubSeq(q, 1, B - 1)
                /\ Top(tasks[par].stack).out = [kind |-> "throw", v |-> err]
     /\ \A m \in (j + 1)..Len(log) :
          (log[m].t = t /\ log[m].e = "begin")
          => \A dd \in lo..Len(q) : ~FollowsAt(q, log[m].p, dd)

\* the failures a handler threw, and their re-raising by parallel nodes
Raised ==
  {j \in 1..Len(log) : \/ log[j].e = "throw" /\ log[j].n = 1
                       \/ log[j].e = "rethrow"}

\* C10 as stated: every failure a handler throws is caught by the nearest
\* enclosing try node, or by the top-level handler when there is none, and
\* the condition and forEach nodes it passes through run nothing more.
C10_AlwaysCaught == \A j \in Raised : Unwinds(j, FALSE)

\* C10: a failure a handler throws is caught by the nearest enclosing try
\* node, or by the top-level handler when there is none, unless it leaves a
\* branch of a parallel node of which another branch has failed before, in
\* which case it is discarded; the condition and forEach nodes it passes
\* through run nothing more.
C10_CaughtOrDiscarded == \A j \in Raised : Unwinds(j, TRUE)

\* the failure of a handler in a parallel branch was caught by the try node
\* around the parallel node, that of another one reached the top-level
\* handler, and the failure of the other branch was discarded
C10_Witness ==
  /\ \E j \in 1..(Len(log) - 1) : log[j].e = "rethrow" /\ log[j + 1].e = "catch"
  /\ \E j \in 1..(Len(log) - 1) : log[j].e = "rethrow" /\ log[j + 1].e = "topcatch"
  /\ \E j \in 2..Len(log) : log[j].e = "drop" /\ log[j - 1].e = "throw" /\ log[j - 1].n = 1

\* the branches of the parallel node task t waits for that have failed
Rejected(t) == {u \in Top(tasks[t].stack).kids : tasks[u].status = "rejected"}

\* C11: if a branch of a parallel node raises a failure, the parallel node
\* raises a failure to its enclosing scope, the first one a branch raised,
\* whatever the other branches do, and it never completes as a success.
C11_ParallelFails ==
  [][\A t \in TaskIds :
       At(t, "executeParallel") =>
         LET f == Top(tasks[t].stack) IN
         /\ Rejected(t) # {} => f.out.kind = "throw"
         /\ f.out.kind = "throw" /\ At(t, "executeParallel")'
              => Top(tasks'[t].stack).out = f.out
         /\ \A u \in f.kids :
              Rejected(t) = {} /\ tasks'[u].status = "rejected"
              => Top(tasks'[t].stack).out = [kind |-> "throw", v |-> tasks'[u].err]
         /\ Steps(t) /\ f.out.kind = "throw" =>
              /\ Len(log') > Len(log)
              /\ log'[Len(log) + 1] = Event("rethrow", f.p, t, 0, f.out.v)
              /\ \A m \in (Len(log) + 1)..Len(log') :
                   ~(log'[m].e = "done" /\ log'[m].p = f.p)
              /\ \/ Len(log') > Len(log) + 1
                    /\ log'[Len(log) + 2].e \in {"catch", "topcatch"}
                    /\ log'[Len(log) + 2].v = f.out.v
                 \/ tasks'[t].status = "rejected" /\ tasks'[t].err = f.out.v]_vars

\* a parallel node raised the failure of one branch after another branch of
\* it had written the response
C11_Witness ==
  \E i, j \in 1..Len(log) :
    /\ i < j
    /\ log[i].e = "return"
    /\ log[j].e = "rethrow"
    /\ IsPrefix(log[j].p, log[i].p)
    /\ Len(log[i].p) > Len(log[j].p)

\* C12: a parallel node completes only after every one of its branches has
\* finished: when executeFlux has completed, no branch of the request is
\* still executing a node or will start one.
C12_AllBranchesFinished ==
  Completed => \A u \in DOMAIN tasks : tasks[u].status # "running"

\* the places <<j, i>> of the nodes of the branches of a parallel node
BranchPlaces(node) ==
  {<<j, i>> : j \in 1..Len(node.branches), i \in 1..MaxFlow} \cap
  UNION {{<<j, i>> : i \in 1..Len(node.branches[j])} : j \in 1..Len(node.branches)}

\* the branches of a parallel node run actions with pairwise distinct names
\* whose handlers all succeed
DistinctSucceeding(node, c) ==
  /\ \A x \in BranchPlaces(node) :
       LET n == node.branches[x[1]][x[2]] IN
       /\ n.type = "action"
       /\ getAction(n.path)
       /\ \A o \in HandlerOutcomes(n.path, c) : o.kind = "return"
  /\ \A x, y \in BranchPlaces(node) :
       node.branches[x[1]][x[2]].name = node.branches[y[1]][y[2]].name => x = y

\* C13: when the branches of a parallel node run actions with pairwise
\* distinct names whose handlers all succeed, ctx.results maps each of the
\* names to the result of its action once the node has completed, under
\* every interleaving of the branches.
C13_ParallelResults ==
  [][\A t \in TaskIds :
       (At(t, "executeParallel") /\ Len(tasks'[t].stack) < Len(tasks[t].stack)
        /\ DistinctSucceeding(Top(tasks[t].stack).node, ctx))
       => LET node == Top(tasks[t].stack).node IN
          /\ Lookup(ctx', "results").t = "object"
          /\ \A x \in BranchPlaces(node) :
               LET n == node.branches[x[1]][x[2]] IN
               /\ n.name \in DOMAIN ctx'["results"].v
               /\ Returns(ctx'["results"].v[n.name]) \in HandlerOutcomes(n.path, ctx)]_vars

\* C14: a return node writes a response whose status is node.status when
\* one is given and 200 otherwise, and whose body is resolve(node.body, ctx),
\* for every body, falsy bodies such as 0, false and "" included.
C14_ReturnWrites ==
  [][\A t \in TaskIds :
       (AtNode(t, "return") /\ Steps(t) /\ CanWrite(ctx) /\ ~headersSent)
       => LET node == CurNode(Top(tasks[t].stack)) IN
          resCalls' = Append(resCalls,
                             Write(IF node.status = Undef THEN 200 ELSE node.status.v,
                                   resolve(node.body, ctx), "send"))]_vars

\* C15: before the first node of a flow runs, executeFlux sets
\* ctx.plugins[name] to plugin.getClient() for every registered plugin, so
\* every action handler of every request is invoked on a context whose
\* plugins hold the clients of all registered plugins.
C15_PluginsInjected ==
  [][\A t \in TaskIds :
       (AtNode(t, "action") /\ Steps(t) /\ getAction(CurNode(Top(tasks[t].stack)).path))
       => \A name \in DOMAIN plugins :
            /\ getClient(db).kind = "return"
            /\ GetProp(Lookup(ctx', "plugins"), name) = getClient(db).v]_vars

\* the entries of config.plugins
ConfigEntries == IF Truthy(config.plugins) THEN config.plugins.v ELSE <<>>

\* the server has awaited a setup of the plugin of entry e that returned
SetUp(e) ==
  \E j \in 1..Len(setups) : setups[j].key = e.key /\ setups[j].out.kind = "return"

Teardowns(name) == {j \in 1..Len(setups) : setups[j].op = "teardown" /\ setups[j].name = name}

\* C17: on process shutdown teardown is invoked exactly once on each
\* registered plugin, and the failure of one teardown is logged without
\* being raised again and without preventing the other teardowns.
C17_TeardownOnShutdown ==
  server.pc = "stopped" => \A name \in DOMAIN plugins : Cardinality(Teardowns(name)) = 1

\* a setup of the instance has established the pool
Established ==
  \E j \in 1..Len(setups) :
    /\ setups[j].op = "setup" /\ setups[j].name = db.name
    /\ setups[j].out.kind = "return"
    /\ db.pool = Pool(TRUE)

\* C18: PostgresPlugin.getClient raises an error whenever no setup has
\* completed successfully: before setup is called, after a setup whose
\* connection attempt failed and after a setup that returned without a
\* connection string; it returns a client only after a setup that has
\* established the pool.
C18_GetClientNeedsSetup ==
  [][client' # client =>
       IF Established THEN client'.kind = "return"
       ELSE client' = Throws("[PostgresPlugin] Database not initialized")]_vars

\* the files of the flux directory, none when the directory is missing
FluxFiles == IF env.flux = Undef THEN <<>> ELSE env.flux.v
ActionFiles == IF env.actions = Undef THEN <<>> ELSE env.actions.v

\* the i-th flux file parses and validates
Loads(i) == FluxFiles[i].t = "json" /\ validate(FluxFiles[i].v).valid

Indices(n) == [i \in 1..n |-> i]

\* loadFluxDefinitions has returned
FluxReturned == FluxLoaded(server) \/ server.pc = "listening"

\* C19: for every set of flux files loadFluxDefinitions returns exactly the
\* definitions that parse and validate, and getFluxErrors then lists exactly
\* the files that failed to parse or validate, one entry each; an invalid
\* file is never returned, hence never registered as a route, and it does
\* not prevent the valid files from being loaded and registered.
C19_ValidLoadedInvalidListed ==
  LET good == SelectSeq(Indices(Len(FluxFiles)), Loads)
      bad == SelectSeq(Indices(Len(FluxFiles)), LAMBDA i : ~Loads(i))
  IN /\ FluxReturned =>
          /\ server.definitions = [k \in 1..Len(good) |-> FluxFiles[good[k]].v]
          /\ Len(loader.fluxErrors) = Len(bad)
          /\ \A k \in 1..Len(bad) :
               /\ loader.fluxErrors[k].file = FluxFile(bad[k])
               /\ loader.fluxErrors[k].errors # <<>>
     /\ server.pc = "listening" =>
          server.routes = [k \in 1..Len(good) |-> Route(FluxFiles[good[k]].v)]
     /\ \A k \in 1..Len(server.routes) :
          \E i \in 1..Len(FluxFiles) : Loads(i) /\ server.routes[k].flux = FluxFiles[i].v

\* the server listens on the one route of a valid flux file that was loaded
\* after a file that parsed and did not validate
C19_Witness ==
  /\ server.pc = "listening"
  /\ Len(FluxFiles) = 2
  /\ FluxFiles[1].t = "json" /\ ~Loads(1)
  /\ Loads(2)
  /\ Len(server.routes) = 1
  /\ Len(loader.fluxErrors) = 1

\* loadActions has returned
ActionsReturned ==
  ActionsLoaded(server) \/ server.pc \in {"flux", "fluxLoaded", "listening"}

\* C20: when the root of the actions or that of the flux files does not
\* exist, loadActions yields an empty action table and loadFluxDefinitions an
\* empty list, and neither raises a failure; an action file that fails to
\* load or does not export a function is skipped and the other files are
\* loaded.
C20_MissingRootsAndBadFiles ==
  /\ ActionsReturned =>
       /\ DOMAIN loader.actions = {ActionKey(i) : i \in {j \in 1..Len(ActionFiles) :
                                                           ActionFiles[j] = "function"}}
       /\ env.actions = Undef => loader.actions = NoActions
  /\ (FluxReturned /\ env.flux = Undef) => server.definitions = <<>>
  /\ server.pc = "rejected" => \E j \in 1..Len(setups) : setups[j].out.kind = "throw"
  /\ server.failure # Undef => \E j \in 1..Len(setups) : setups[j].out.kind = "throw"

\* the server listens after it has skipped an action file that does not load
\* and loaded the one after it, the root of the flux files missing
C20_Witness ==
  /\ server.pc = "listening"
  /\ env.flux = Undef
  /\ Len(ActionFiles) = 2
  /\ ActionFiles[1] = "throws"
  /\ DOMAIN loader.actions = {ActionKey(2)}

\* C21: each request runs on a fresh context: the results, state, args and
\* dynamic bindings written while serving one request are never observable
\* by the flow of another request, under any interleaving of the requests:
\* a request starts on the context built from its own request alone, and a
\* suspended request finds its context as it left it.
C21_FreshContext ==
  /\ parked # NoRequest => heap[parked.ref] = parked.ctx
  /\ (tasks # <<>> /\ log = <<>>) => ctx = RouteContext(ctx["req"])
  /\ (parked # NoRequest /\ parked.log = <<>>)
     => heap[parked.ref] = RouteContext(parked.ctx["req"])

\* two requests of the same route are in flight, each in an iteration of
\* its forEach with args and the item bound, and the suspended one has
\* stored a result
C21_Witness ==
  /\ parked # NoRequest
  /\ Has(ctx, "args") /\ Has(ctx, "item")
  /\ Has(parked.ctx, "item")
  /\ Has(parked.ctx, "process")
  /\ ~Has(ctx, "process")
  /\ \E t \in DOMAIN tasks : tasks[t].status = "running"
  /\ \E t \in DOMAIN parked.tasks : parked.tasks[t].status = "running"

\* the keys of a part of the request, none for a part that is undefined
KeysOf(part) == IF part.t = "object" THEN DOMAIN part.v ELSE {}

\* C26: the input of the context is the shallow merge of the request body,
\* then the query, then the path parameters: a key present in several of
\* them has the value of the path parameter before that of the query, and
\* that of the query before that of the body.
C26_InputMerge ==
  (tasks # <<>> /\ log = <<>>) =>
    LET req == ctx["req"]
        input == ctx["input"]
    IN /\ input.t = "object"
       /\ DOMAIN input.v = KeysOf(req.body) \cup KeysOf(req.query) \cup KeysOf(req.params)
       /\ \A k \in DOMAIN input.v :
            input.v[k] = IF k \in KeysOf(req.params) THEN req.params.v[k]
                         ELSE IF k \in KeysOf(req.query) THEN req.query.v[k]
                         ELSE req.body.v[k]

\* a request whose body, query and path parameters all have the key flag,
\* and whose query and path parameters both have the key id, has arrived
C26_Witness ==
  /\ tasks # <<>>
  /\ log = <<>>
  /\ \A part \in {ctx["req"].body, ctx["req"].query, ctx["req"].params} :
       "flag" \in KeysOf(part)
  /\ GetProp(ctx["input"], "flag") = Str("p")
  /\ GetProp(ctx["input"], "id") = Str("7")
  /\ GetProp(ctx["input"], "xs") = Arr(<<Num(1), Num(2)>>)

\* the value at a path given segment by segment, from a value on
RECURSIVE ValueAt(_, _)
ValueAt(segments, value) ==
  IF segments = <<>> THEN value
  ELSE IF value.t \in {"undefined", "null"} THEN Undef
  ELSE ValueAt(Tail(segments), GetProp(value, Head(segments)))

\* the value of a condition expression, each placeholder standing for the
\* value at its path
RECURSIVE ValueOf(_, _)
ValueOf(e, context) ==
  CASE e.op = "var" -> ValueAt(e.path, Obj(context))
    [] e.op = "lit" -> e.v
    [] e.op = "!" -> Bool(~Truthy(ValueOf(e.a, context)))
    [] OTHER -> BinOp(e.op, ValueOf(e.a, context), ValueOf(e.b, context))

ConditionTexts == [e \in Conditions |-> ConditionText(e)]

\* C22: for a condition of the grammar (comparisons, !, &&, ||, parentheses,
\* string, number and boolean literals) evaluateCondition returns the truth
\* value of the expression with each placeholder standing for the value
\* looked up, not for its text: "${n} === 0" is true for n = 0, "!${flag}"
\* is false for flag = true, and a bare placeholder gives the truthiness of
\* the value looked up.
C22_ConditionTruth ==
  (call.fn = "evaluateCondition" /\ returned # NoOut) =>
    /\ \A e \in Conditions :
         ConditionTexts[e] = call.expression =>
           returned = Returns(Bool(Truthy(ValueOf(e, call.context))))
    /\ (call.expression = "${n} === 0" /\ call.context["n"] = Num(0)) =>
         returned = Returns(Bool(TRUE))
    /\ (call.expression = "!${flag}" /\ call.context["flag"] = Bool(TRUE)) =>
         returned = Returns(Bool(FALSE))
    /\ call.expression = "${input.name}" =>
         returned = Returns(Bool(GetProp(call.context["input"], "name") # Str("")))

\* "${n} === 0" was evaluated for n = 0, and a condition with parentheses
\* for a context where it is false
C22_Witness ==
  /\ call.fn = "evaluateCondition"
  /\ returned # NoOut
  /\ \/ call.expression = "${n} === 0" /\ call.context["n"] = Num(0) /\ returned.v = Bool(TRUE)
     \/ /\ call.expression = "(${flag} || ${input.name}) && !${n}"
        /\ returned.v = Bool(FALSE)

\* the template with each placeholder replaced by the string form of the
\* value at its path, or by nothing when that value is undefined or null
RECURSIVE Rendered(_, _)
Rendered(parts, context) ==
  IF parts = <<>> THEN ""
  ELSE (IF Head(parts).op = "text" THEN Head(parts).s
        ELSE LET value == ValueAt(Head(parts).path, Obj(context)) IN
             IF value.t \in {"undefined", "null"} THEN "" ELSE ToStr(value))
       \o Rendered(Tail(parts), context)

TemplateTexts == [parts \in Templates |-> TemplateText(parts)]

\* C23: for a string that is exactly one placeholder resolve returns the
\* value looked up, with its type, and undefined when a segment of the path
\* is missing; for any other string with placeholders it returns the string
\* with each placeholder replaced by the string form of the value looked up,
\* undefined and null giving the empty string while 0 and false are kept.
C23_Resolve ==
  (call.fn = "resolve" /\ returned # NoOut) =>
    /\ \A parts \in Templates :
         (TemplateTexts[parts] = call.expression /\ \E i \in DOMAIN parts : parts[i].op = "var") =>
           IF Len(parts) = 1
           THEN returned = Returns(ValueAt(parts[1].path, Obj(call.context)))
           ELSE returned = Returns(Str(Rendered(parts, call.context)))
    /\ call.expression \in {"${missing.x}", "${input.age.x}"} => returned = Returns(Undef)
    /\ call.expression = "${nothing}" => returned = Returns(Null)
    /\ call.expression = "${n}" => returned = Returns(call.context["n"])
    /\ (call.expression = "x=${n}" /\ call.context["n"] = Num(0)) =>
         returned = Returns(Str("x=0"))
    /\ (call.expression = "x=${flag}" /\ call.context["flag"] = Bool(FALSE)) =>
         returned = Returns(Str("x=false"))
    /\ call.expression \in {"x=${nothing}", "x=${missing.x}"} => returned = Returns(Str("x="))

\* "x=${n}" was resolved for n = 0
C23_Witness ==
  /\ call.fn = "resolve"
  /\ call.expression = "x=${n}"
  /\ call.context["n"] = Num(0)
  /\ returned = Returns(Str("x=0"))

\* the seven HTTP verbs
Verbs == {"GET", "POST", "PUT", "DELETE", "PATCH", "OPTIONS", "HEAD"}

\* the fields a node of each type must have, and the further fields its
\* type declares
Mandatory ==
  [action |-> {"name", "path"}, condition |-> {"if", "then"},
   forEach |-> {"items", "as", "do"}, parallel |-> {"branches"},
   try |-> {"try", "catch"}, return |-> {"body"}]
Optional ==
  [action |-> {"args"}, condition |-> {"else"}, forEach |-> {}, parallel |-> {},
   try |-> {"errorVar"}, return |-> {"status"}]

\* the node has its type's mandatory fields, they and the blocks of nodes
\* have their types, and every node of its blocks is such a node; with
\* typed, the optional fields that are present have their types too
RECURSIVE WellFormed(_, _)
FieldTyped(value, key, typed) ==
  CASE key \in {"name", "path", "if", "items", "as"} -> value.t = "string"
    [] key \in {"then", "else", "do", "try", "catch"} ->
         /\ value.t = "array"
         /\ \A i \in 1..Len(value.v) : WellFormed(value.v[i], typed)
    [] key = "branches" ->
         /\ value.t = "array"
         /\ \A j \in 1..Len(value.v) :
              /\ value.v[j].t = "array"
              /\ \A i \in 1..Len(value.v[j].v) : WellFormed(value.v[j].v[i], typed)
    [] key = "errorVar" -> typed => value.t = "string"
    [] key = "args" -> typed => value.t = "object"
    [] key = "status" -> typed => value.t = "number"
    [] OTHER -> TRUE
WellFormed(n, typed) ==
  /\ n.t = "object"
  /\ "type" \in DOMAIN n.v
  /\ n.v["type"].t = "string"
  /\ n.v["type"].v \in DOMAIN Mandatory
  /\ LET type == n.v["type"].v IN
     /\ Mandatory[type] \subseteq DOMAIN n.v
     /\ \A key \in DOMAIN n.v \cap (Mandatory[type] \cup Optional[type]) :
          FieldTyped(n.v[key], key, typed)

WellFormedDefinition(d, typed) ==
  /\ d.t = "object"
  /\ {"endpoint", "method", "flow"} \subseteq DOMAIN d.v
  /\ d.v["endpoint"].t = "string"
  /\ d.v["method"].t = "string"
  /\ d.v["method"].v \in Verbs
  /\ d.v["flow"].t = "array"
  /\ \A i \in 1..Len(d.v["flow"].v) : WellFormed(d.v["flow"].v[i], typed)
  /\ (typed /\ "description" \in DOMAIN d.v) => d.v["description"].t = "string"

\* validate has returned valid exactly for the definitions that are well
\* formed, with no error then and with an error otherwise
ValidExactly(typed) ==
  (call.fn = "validate" /\ returned # NoOut) =>
    /\ returned.v.valid = WellFormedDefinition(call.definition, typed)
    /\ returned.v.valid => returned.v.errors = <<>>
    /\ ~returned.v.valid => Len(returned.v.errors) >= 1

\* C24 as stated: validate returns valid:true with no error exactly for the
\* definitions with a string endpoint, a method among the seven verbs and a
\* flow array whose nodes, recursively, carry a recognised type and its
\* mandatory fields, and valid:false with an error for every other one.
C24_ValidAsStated == ValidExactly(FALSE)

\* C24: validate returns valid:true with no error exactly for the
\* definitions with a string endpoint, a method among the seven verbs and a
\* flow array whose nodes, recursively, carry a recognised type and its
\* mandatory fields, where the optional description, args, errorVar and
\* status have their declared types when present; every other definition
\* gives valid:false with an error, and unknown keys never cause rejection.
C24_ValidExactly == ValidExactly(TRUE)

\* a definition with a nested node and a node with unknown keys was found
\* valid
C24_Witness ==
  /\ call.fn = "validate"
  /\ returned # NoOut
  /\ returned.v.valid
  /\ \E i \in 1..Len(call.definition.v["flow"].v) :
       "extra" \in DOMAIN call.definition.v["flow"].v[i].v
  /\ \E i \in 1..Len(call.definition.v["flow"].v) :
       call.definition.v["flow"].v[i].v["type"] = Str("condition")

\* the failure of an action node without a registered handler
NotFound(err) == err.t = "error" /\ StartsAt(err.v, "Action not found", 1)

\* the step of an action node whose path has no handler: no handler is
\* invoked, the failure 'Action not found' is raised, ctx.results and
\* ctx[name] are not written, and the failure goes to the nearest enclosing
\* try node, else to the top-level handler, else out of its parallel branch
NotFoundRaised ==
  \A t \in TaskIds :
    (AtNode(t, "action") /\ ~getAction(CurNode(Top(tasks[t].stack)).path) /\ Steps(t))
    => LET f == Top(tasks[t].stack)
           node == CurNode(f)
           p == NodePath(f)
           e == Err("Action not found: " \o node.path, p)
           d == CatchLevel(p)
           bound == d > 0 /\ NodeAt(SubSeq(p, 1, d - 1)).errorVar = Str(node.name)
       IN /\ \A i \in DOMAIN tasks'[t].stack : tasks'[t].stack[i].fn # "executeAction"
          /\ Len(log') >= Len(log) + 2
          /\ log'[Len(log) + 2] = Event("throw", p, t, 0, e)
          /\ Lookup(ctx', "results") = Lookup(ctx, "results")
          /\ ~bound => Lookup(ctx', node.name) = Lookup(ctx, node.name)
          /\ IF d > 0
             THEN log'[Len(log) + 3] = Event("catch", SubSeq(p, 1, d - 1), t, 0, e)
             ELSE IF BranchLevel(p) = 0
             THEN log'[Len(log) + 3] = Event("topcatch", <<>>, t, 0, e)
             ELSE tasks'[t].status = "rejected"

\* the top-level handler answers the failure 'Action not found' with the 500
\* response, unless a response has been written before
NotFoundAnswered ==
  (/\ At(1, "executeFlux")
   /\ Top(tasks[1].stack).blk = "catch"
   /\ NotFound(Top(tasks[1].stack).out.v)
   /\ Steps(1))
  => resCalls' = (IF headersSent THEN resCalls
                  ELSE Append(resCalls, Write(500, ErrorBody, "json")))

\* C25: an action node whose path has no registered handler fails the flow
\* with 'Action not found', without invoking a handler and without writing
\* ctx.results[name] or ctx[name]; the failure is caught by an enclosing try
\* node and otherwise leads to the 500 response.
C25_ActionNotFound == [][NotFoundRaised /\ NotFoundAnswered]_vars

\* C27: ctx.args is present only while an action handler is being invoked:
\* it is absent after the handler returns and after the handler throws, so
\* that no node that runs after a failed action finds the args of that
\* action.
C27_ArgsOnlyDuringHandler ==
  Has(ctx, "args") => \E t \in DOMAIN tasks : At(t, "executeAction")

\* the steps that end the forEach node whose frame is the i-th of task t
ForEachStops(t, i) ==
  /\ tasks[t].stack[i].fn = "executeForEach"
  /\ \/ Len(tasks'[t].stack) < i
     \/ tasks'[t].stack[i].fn # "executeForEach"
     \/ tasks'[t].stack[i].p # tasks[t].stack[i].p

\* C28: after a forEach node stops, whether all its iterations are done, a
\* Return has executed in its body or a failure was thrown in its body,
\* ctx[as] is unbound.
C28_UnboundAfterForEach ==
  [][\A t \in DOMAIN tasks : \A i \in DOMAIN tasks[t].stack :
       ForEachStops(t, i) => ~Has(ctx', tasks[t].stack[i].node.as)]_vars

\* C29: once a Return has executed in a branch of a parallel node, no other
\* branch of that node starts a further node of the branch.
C29_ReturnStopsBranches ==
  \A j \in 1..Len(log) : \A m \in (j + 1)..Len(log) :
    LET r == log[j].p
        q == log[m].p
        B == BranchLevel(r)
    IN ~(/\ log[j].e = "return"
         /\ B > 0
         /\ log[m].e = "begin"
         /\ Len(q) = B
         /\ SubSeq(q, 1, B - 1) = SubSeq(r, 1, B - 1)
         /\ q[B].b = "branches"
         /\ q[B].k # r[B].k)

\* C30: once a Return has executed inside the try block of a try node, at
\* any depth, no node of the catch block of that try node starts.
C30_NoCatchAfterReturn ==
  \A j \in 1..Len(log) : \A m \in (j + 1)..Len(log) :
    (log[j].e = "return" /\ log[m].e = "begin")
    => \A d \in 1..Len(log[m].p) :
         log[m].p[d].b = "catch" => ~InTryOf(SubSeq(log[m].p, 1, d - 1), log[j].p)

\* C31: a Return node executed when the response has already been sent is a
\* no-op: it writes nothing and raises no failure, so that it starts no
\* catch block.
C31_ReturnAfterSentIsNoOp ==
  [][\A t \in TaskIds :
       (AtNode(t, "return") /\ headersSent /\ CanWrite(ctx) /\ Steps(t))
       => /\ resCalls' = resCalls
          /\ \A j \in (Len(log) + 1)..Len(log') :
               log'[j].e \notin {"throw", "catch", "topcatch"}]_vars

\* the level of the innermost catch block around the node at q inside its
\* branch, 0 if none
InCatchLevel(q) ==
  LET T == {d \in (BranchLevel(q) + 1)..Len(q) : q[d].b = "catch"} IN
  IF T = {} THEN 0 ELSE MaxOf(T)

\* the failures raised by a node that lies in a catch block, with no try
\* block between the catch block and the node
RaisedInCatch ==
  {j \in 1..Len(log) : /\ log[j].e \in {"throw", "rethrow"}
                       /\ InCatchLevel(log[j].p) > CatchLevel(log[j].p)
                       /\ InCatchLevel(log[j].p) > 0}

C33_ReloadKeepsHandlers ==
  (call.fn = "getAction" /\ call.path \in DOMAIN LoadedActions(env))
    => returned = Returns(Bool(TRUE))

\* the names that actions of two places of a parallel node share
SameNamed(node) ==
  {node.branches[x[1]][x[2]].name :
     x \in {y \in BranchPlaces(node) :
              /\ node.branches[y[1]][y[2]].type = "action"
              /\ \E z \in BranchPlaces(node) :
                   /\ z # y
                   /\ node.branches[z[1]][z[2]].type = "action"
                   /\ node.branches[z[1]][z[2]].name = node.branches[y[1]][y[2]].name}}

\* the events of the handlers that returned to an action called name of a
\* branch of the parallel node at p
DoneIn(events, p, name) ==
  {j \in 1..Len(events) :
     /\ events[j].e = "done"
     /\ IsPrefix(p, events[j].p) /\ Len(events[j].p) > Len(p)
     /\ NodeAt(events[j].p).type = "action"
     /\ NodeAt(events[j].p).name = name}

\* C34: when two branches of a parallel node run actions with the same
\* name, ctx.results[name] and ctx[name] are equal at every point between
\* the steps of the node, and once the node has completed both hold the
\* result of the action whose handler completed last.
C34_LastWriterWins ==
  [][\A t \in TaskIds :
       At(t, "executeParallel")
       => LET f == Top(tasks[t].stack) IN
          \A name \in SameNamed(f.node) :
            /\ GetProp(Lookup(ctx', "results"), name) = Lookup(ctx', name)
            /\ (Len(tasks'[t].stack) < Len(tasks[t].stack) /\ f.out = NoOut
                /\ DoneIn(log', f.p, name) # {})
               => Lookup(ctx', name) = log'[MaxOf(DoneIn(log', f.p, name))].v]_vars

\* the frames of the walk hold the nodes of the definition as they are
FramesOfDefinition(ts) ==
  \A t \in DOMAIN ts : \A i \in DOMAIN ts[t].stack :
    LET f == ts[t].stack[i] IN
    /\ f.fn \notin {"executeFlux", "branch"} => f.node = NodeAt(f.p)
    /\ f.fn = "branch" => f.nodes = NodeAt(f.p).branches[f.k]
    /\ f.fn = "executeFlux" => f.nodes = flux.flow
    /\ f.fn = "executeCondition" =>
         f.nodes = (IF f.blk = "then" THEN f.node.then ELSE f.node.else.v)
    /\ f.fn = "executeForEach" => f.nodes = f.node.do
    /\ f.fn = "executeTry" => f.nodes = (IF f.blk = "try" THEN f.node.try ELSE f.node.catch)

\* C35: executeFlux and resolve never modify the flux definition: at every
\* step the flow, node args and return bodies included, stays what it was and
\* the walk holds its nodes unchanged; resolve returns new values and leaves
\* the context as it is: the steps that resolve a condition, the items of a
\* loop or the body of a return change nothing in the context, and the step
\* that resolves the args of an action changes ctx.args only.
C35_DefinitionReadOnly ==
  [][/\ flux' = flux
     /\ FramesOfDefinition(tasks')
     /\ \A t \in TaskIds :
          /\ ((AtNode(t, "condition") \/ AtNode(t, "forEach")) /\ Steps(t)) => ctx' = ctx
          /\ (AtNode(t, "return") /\ Steps(t) /\ resCalls' # resCalls) => ctx' = ctx
          /\ (AtNode(t, "action") /\ Steps(t) /\ getAction(CurNode(Top(tasks[t].stack)).path))
             => Del(ctx', "args") = Del(ctx, "args")]_vars

\* the body {error: "${e2.message}"} of a return node was sent resolved and
\* the args {id: "${input.flag}"} of an action were handed to its handler
\* resolved, and the definition still holds the two templates
C35_Witness ==
  \/ /\ resCalls = <<Write(400, Obj([error |-> Str("fail")]), "send")>>
     /\ Len(flux.flow) = 1
     /\ flux.flow[1].type = "try"
     /\ flux.flow[1].catch = <<ReturnNode(Num(400), Obj([error |-> Str("${e2.message}")]))>>
  \/ /\ Lookup(ctx, "args") = Obj([id |-> Bool(TRUE)])
     /\ \E t \in DOMAIN tasks :
          /\ At(t, "executeAction")
          /\ Top(tasks[t].stack).node.args = Obj([id |-> Str("${input.flag}")])

\* C36: a forEach node whose items resolve to a value that is no array
\* executes no node of its body, binds nothing at ctx[as], raises no failure,
\* and the flow continues with the next node.
C36_NonArrayIsNoOp ==
  [][\A t \in TaskIds :
       (AtNode(t, "forEach") /\ Steps(t)
        /\ resolve(Str(CurNode(Top(tasks[t].stack)).items), ctx).t # "array")
       => LET f == Top(tasks[t].stack) IN
          /\ ctx' = ctx
          /\ \A j \in (Len(log) + 1)..Len(log') :
               log'[j].e \notin {"iter", "throw", "catch", "topcatch"}
          /\ tasks'[t].status = "running"
          /\ tasks'[t].stack = SetTop(tasks[t].stack, [f EXCEPT !.i = f.i + 1])]_vars

\* the args the handler that task t awaits was called with
CalledWith(t) ==
  LET f == Top(tasks[t].stack) IN
  log[MaxOf({j \in 1..Len(log) : log[j].e = "begin" /\ log[j].p = f.p /\ log[j].t = t})].v

\* C37: while an action handler is executing, ctx.args keeps the value
\* resolved for that action, or stays absent when the node has no args,
\* until the handler returns, whatever the other branches of a parallel node
\* do on the shared context in the meantime.
C37_ArgsKeptForHandler ==
  \A t \in DOMAIN tasks : At(t, "executeAction") => Lookup(ctx, "args") = CalledWith(t)

\* C38: the dynamic bindings of the executor never replace the core fields
\* of the context: after any node ctx.res, ctx.results, ctx.input, ctx.state
\* and ctx.plugins are the objects they were at the start of the flow,
\* whatever names the actions, the loops and the try nodes of the flux use.
C38_CoreFieldsKept ==
  [][/\ \A k \in {"res", "input", "state", "plugins"} : Lookup(ctx', k) = Lookup(ctx, k)
     /\ Lookup(ctx, "results").t = "object" => Lookup(ctx', "results").t = "object"]_vars

\* C39: executeFlux always completes normally: no failure of a node, of an
\* action handler, of a missing action or of a write on the response inside
\* the flow propagates out of executeFlux to the route handler that called
\* it.
C39_NeverRejects == tasks[1].status # "rejected"

\* C40: for every finite flux whose action handlers all terminate,
\* executeFlux eventually completes: the walk of the node tree terminates,
\* also when the body of a forEach loop runs handlers that modify the
\* context and the array the loop iterates.
C40_Terminates == <>Completed

====
